---- MODULE Spec2Model ----
(***************************************************************************)
(* A model of the query path of chat-openapi: RAGService.generate_response *)
(* (backend/app/services/rag_service.py) driving                           *)
(* OpenRouterService.stream_chat_completion                                *)
(* (backend/app/services/openrouter_service.py).                           *)
(*                                                                         *)
(* Python strings are sequences of one-character strings, so that lower(), *)
(* strip(), split(), `in` and len() are computed as Python computes them.  *)
(***************************************************************************)
EXTENDS Naturals, Sequences, FiniteSets

\* ---------------------------------------------------------------- bounds
\* The remote stream delivers at most MaxLines lines before '[DONE]', the
\* end of the line sequence, or a failure.
MaxLines == 3
\* The vector search returns at most MaxResults results.
MaxResults == 6

\* FileService saves at most MaxUploads files, and the collection holds the
\* chunks of at most MaxUploads documents.
MaxUploads == 2
\* settings.EMBEDDING_BATCH_SIZE, which the environment sets (config.py:16
\* gives it 32 when unset), at a size that splits a document into batches.
BatchSize == 2

\* ------------------------------------------------------ program constants
\* openrouter_service.py:164  len("".join(buffer)) >= 20
GatewayFlushLen == 20
\* rag_service.py:124  len(combined) >= 100
RagFlushLen == 100
\* rag_service.py:13  get_context(self, query, k: int = 5), the limit of the
\* search
DefaultK == 5

\* rag_service.py:108  len(context) > 5
ManyLimit == 5

\* ------------------------------------------------------- string helpers
\* the ASCII letters
UpperAlpha ==
    <<"A","B","C","D","E","F","G","H","I","J","K","L","M",
      "N","O","P","Q","R","S","T","U","V","W","X","Y","Z">>

LowerAlpha ==
    <<"a","b","c","d","e","f","g","h","i","j","k","l","m",
      "n","o","p","q","r","s","t","u","v","w","x","y","z">>

\* the other printable ASCII characters that occur in the texts of the model,
\* and the line and tab characters
OtherChars ==
    {" ", "!", "#", "$", "%", "&", "'", "(", ")", "*", "+", ",", "-",
     ".", "/", "0", "1", "2", "3", "4", "5", "6", "7", "8", "9", ":", ";",
     "<", "=", ">", "?", "@", "[", "]", "^", "_", "{", "|", "}",
     "~", "\n", "\t", "\r", "\""}

\* str.lower() on one character: a letter A-Z maps to a-z, any other
\* character to itself
LowerTable ==
    [c \in {UpperAlpha[i] : i \in 1..26} \cup {LowerAlpha[i] : i \in 1..26}
            \cup OtherChars |->
        IF \E i \in 1..26 : UpperAlpha[i] = c
        THEN LowerAlpha[CHOOSE i \in 1..26 : UpperAlpha[i] = c]
        ELSE c]

LowerChar(c) == LowerTable[c]

\* str.lower()
Lower(s) == [i \in 1..Len(s) |-> LowerChar(s[i])]

\* the characters str.strip() and str.split() treat as whitespace
Whitespace == {" ", "\n", "\t", "\r"}

\* str.strip()
Strip(s) ==
    LET keep == {i \in 1..Len(s) : s[i] \notin Whitespace}
    IN  IF keep = {} THEN <<>>
        ELSE LET lo == CHOOSE i \in keep : \A j \in keep : i <= j
                 hi == CHOOSE i \in keep : \A j \in keep : j <= i
             IN  SubSeq(s, lo, hi)

\* sub in s
Contains(s, sub) ==
    /\ Len(sub) <= Len(s)
    /\ \E i \in 0..(Len(s) - Len(sub)) : SubSeq(s, i + 1, i + Len(sub)) = sub

\* any(c in s for c in chars)
ContainsAnyChar(s, chars) == \E i \in 1..Len(s) : s[i] \in chars

StartsWith(s, p) == Len(p) <= Len(s) /\ SubSeq(s, 1, Len(p)) = p

\* "".join(parts), four parts at a step
RECURSIVE Join(_)
Join(parts) ==
    IF parts = <<>> THEN <<>>
    ELSE IF Len(parts) < 4 THEN Head(parts) \o Join(Tail(parts))
    ELSE parts[1] \o parts[2] \o parts[3] \o parts[4]
             \o Join(Tail(Tail(Tail(Tail(parts)))))

\* sep.join(parts), four parts at a step
RECURSIVE JoinWith(_, _)
JoinWith(sep, parts) ==
    IF parts = <<>> THEN <<>>
    ELSE IF Len(parts) = 1 THEN Head(parts)
    ELSE IF Len(parts) < 5 THEN Head(parts) \o sep \o JoinWith(sep, Tail(parts))
    ELSE parts[1] \o sep \o parts[2] \o sep \o parts[3] \o sep \o parts[4] \o sep
             \o JoinWith(sep, Tail(Tail(Tail(Tail(parts)))))

\* str.split(): the maximal runs of non-whitespace characters, in order
Split(s) ==
    LET n == Len(s)
        IsStart(i) == s[i] \notin Whitespace /\ (i = 1 \/ s[i - 1] \in Whitespace)
        starts == SelectSeq([i \in 1..n |-> i], IsStart)
        EndOf(i) == CHOOSE j \in i..n :
                        /\ \A k \in i..j : s[k] \notin Whitespace
                        /\ j = n \/ s[j + 1] \in Whitespace
    IN  [k \in 1..Len(starts) |-> SubSeq(s, starts[k], EndOf(starts[k]))]

\* ------------------------------------------------------------- literals
\* rag_service.py:99, the empty-context refusal
RefusalMsg ==
    <<"I"," ","c","o","u","l","d","n","'","t"," ","f","i","n","d"," ","r","e","l","e","v","a",
      "n","t"," ","i","n","f","o","r","m","a","t","i","o","n"," ","i","n"," ","t","h","e"," ",
      "O","p","e","n","A","P","I"," ","s","p","e","c","i","f","i","c","a","t","i","o","n"," ",
      "t","o"," ","a","n","s","w","e","r"," ","y","o","u","r"," ","q","u","e","s","t","i","o",
      "n","."," ","C","o","u","l","d"," ","y","o","u"," ","p","l","e","a","s","e"," ","t","r",
      "y"," ","r","e","p","h","r","a","s","i","n","g"," ","y","o","u","r"," ","q","u","e","s",
      "t","i","o","n"," ","o","r"," ","b","e","i","n","g"," ","m","o","r","e"," ","s","p","e",
      "c","i","f","i","c","?">>

\* rag_service.py:104, the broad-query clarification
BroadMsg ==
    <<"I"," ","c","a","n"," ","s","e","e"," ","t","h","e","r","e"," ","a","r","e"," ","m","a",
      "n","y"," ","e","n","d","p","o","i","n","t","s"," ","a","v","a","i","l","a","b","l","e",
      "."," ","T","o"," ","h","e","l","p"," ","y","o","u"," ","b","e","t","t","e","r",","," ",
      "c","o","u","l","d"," ","y","o","u"," ","p","l","e","a","s","e"," ","s","p","e","c","i",
      "f","y"," ","w","h","a","t"," ","t","y","p","e"," ","o","f"," ","e","n","d","p","o","i",
      "n","t","s"," ","y","o","u","'","r","e"," ","i","n","t","e","r","e","s","t","e","d"," ",
      "i","n","?"," ","F","o","r"," ","e","x","a","m","p","l","e",":","\n","\n","-"," ","A","u",
      "t","h","e","n","t","i","c","a","t","i","o","n"," ","e","n","d","p","o","i","n","t","s",
      "\n","-"," ","D","a","t","a"," ","m","a","n","a","g","e","m","e","n","t"," ","e","n","d",
      "p","o","i","n","t","s","\n","-"," ","S","p","e","c","i","f","i","c"," ","r","e","s","o",
      "u","r","c","e"," ","e","n","d","p","o","i","n","t","s"," ","(","e",".","g",".",","," ",
      "u","s","e","r","s",","," ","o","r","d","e","r","s",")","\n","-"," ","S","p","e","c","i",
      "f","i","c"," ","o","p","e","r","a","t","i","o","n","s"," ","(","e",".","g",".",","," ",
      "s","e","a","r","c","h",","," ","c","r","e","a","t","e",","," ","u","p","d","a","t","e",
      ")">>

\* rag_service.py:109, the many-endpoints clarification
ManyMsg ==
    <<"I"," ","n","o","t","i","c","e"," ","t","h","e","r","e"," ","a","r","e"," ","q","u","i",
      "t","e"," ","a"," ","f","e","w"," ","e","n","d","p","o","i","n","t","s"," ","t","h","a",
      "t"," ","m","i","g","h","t"," ","b","e"," ","r","e","l","e","v","a","n","t","."," ","T",
      "o"," ","p","r","o","v","i","d","e"," ","y","o","u"," ","w","i","t","h"," ","t","h","e",
      " ","m","o","s","t"," ","h","e","l","p","f","u","l"," ","i","n","f","o","r","m","a","t",
      "i","o","n",","," ","c","o","u","l","d"," ","y","o","u"," ","p","l","e","a","s","e",":",
      "\n","\n","1","."," ","S","p","e","c","i","f","y"," ","t","h","e"," ","t","y","p","e"," ",
      "o","f"," ","o","p","e","r","a","t","i","o","n"," ","y","o","u","'","r","e"," ","i","n",
      "t","e","r","e","s","t","e","d"," ","i","n"," ","(","e",".","g",".",","," ","G","E","T",
      ","," ","P","O","S","T",","," ","P","U","T",")","\n","2","."," ","I","n","d","i","c","a",
      "t","e"," ","t","h","e"," ","r","e","s","o","u","r","c","e"," ","t","y","p","e"," ","y",
      "o","u","'","r","e"," ","l","o","o","k","i","n","g"," ","f","o","r","\n","3","."," ","M",
      "e","n","t","i","o","n"," ","a","n","y"," ","s","p","e","c","i","f","i","c"," ","f","u",
      "n","c","t","i","o","n","a","l","i","t","y"," ","y","o","u"," ","n","e","e","d">>

\* rag_service.py:133, the text before str(e)
ErrorPrefix ==
    <<"I"," ","e","n","c","o","u","n","t","e","r","e","d"," ","a","n"," ","e","r","r","o","r",
      " ","w","h","i","l","e"," ","g","e","n","e","r","a","t","i","n","g"," ","t","h","e"," ",
      "r","e","s","p","o","n","s","e",":"," ">>

BroadAvailable ==
    <<"w","h","a","t"," ","e","n","d","p","o","i","n","t","s"," ","a","r","e"," ","a","v","a",
      "i","l","a","b","l","e","?">>

BroadThere ==
    <<"w","h","a","t"," ","e","n","d","p","o","i","n","t","s"," ","a","r","e"," ","t","h","e",
      "r","e","?">>

BroadShow ==
    <<"s","h","o","w"," ","m","e"," ","t","h","e"," ","e","n","d","p","o","i","n","t","s">>

BroadList ==
    <<"l","i","s","t"," ","e","n","d","p","o","i","n","t","s">>

KwAuth ==
    <<"a","u","t","h">>

KwEndpoint ==
    <<"e","n","d","p","o","i","n","t">>

\* rag_service.py:19
AuthSuffix ==
    <<" ","a","u","t","h","e","n","t","i","c","a","t","i","o","n"," ","a","u","t","h","o","r",
      "i","z","a","t","i","o","n"," ","t","o","k","e","n"," ","j","w","t"," ","a","p","i","_",
      "k","e","y">>

\* rag_service.py:21
EndpointSuffix ==
    <<" ","o","p","e","r","a","t","i","o","n","I","d"," ","p","a","t","h"," ","m","e","t","h",
      "o","d">>

KwOperationId ==
    <<"o","p","e","r","a","t","i","o","n","i","d">>

KwPath ==
    <<"p","a","t","h">>

KwGet ==
    <<"g","e","t">>

KwPost ==
    <<"p","o","s","t">>

KwPut ==
    <<"p","u","t">>

KwDelete ==
    <<"d","e","l","e","t","e">>

KwApi ==
    <<"a","p","i">>

\* rag_service.py:89
ContextHeader ==
    <<"U","s","i","n","g"," ","t","h","i","s"," ","O","p","e","n","A","P","I"," ","s","p","e",
      "c","i","f","i","c","a","t","i","o","n"," ","c","o","n","t","e","x","t",":","\n","\n">>

\* rag_service.py:89
QuestionHeader ==
    <<"\n","\n","Q","u","e","s","t","i","o","n",":"," ">>

\* rag_service.py:53
NoContextText ==
    <<"N","o"," ","r","e","l","e","v","a","n","t"," ","c","o","n","t","e","x","t"," ","f","o",
      "u","n","d",".">>

QueryList ==
    <<"l","i","s","t"," ","e","n","d","p","o","i","n","t","s">>

QueryListMixed ==
    <<" "," ","L","i","s","t"," ","E","N","D","P","O","I","N","T","S","\n">>

QueryAvailable ==
    <<"W","h","a","t"," ","e","n","d","p","o","i","n","t","s"," ","a","r","e"," ","a","v","a",
      "i","l","a","b","l","e","?">>

QueryThere ==
    <<"w","h","a","t"," ","e","n","d","p","o","i","n","t","s"," ","a","r","e"," ","t","h","e",
      "r","e","?">>

QueryShow ==
    <<"S","h","o","w"," ","m","e"," ","t","h","e"," ","e","n","d","p","o","i","n","t","s"," ">>

QueryPets ==
    <<"W","h","a","t"," ","d","o","e","s"," ","G","E","T"," ","/","p","e","t","s"," ","d","o",
      "?">>

QueryAuthEndpoints ==
    <<"l","i","s","t"," ","e","n","d","p","o","i","n","t","s"," ","f","o","r"," ","a","u","t",
      "h">>

ChunkEndpoint ==
    <<"G","E","T"," ","/","p","e","t","s","\n"," "," ","t","h","e"," ","E","n","d","p","o","i",
      "n","t"," "," ","l","i","s","t","s"," ","p","e","t","s">>

ChunkPlain ==
    <<"P","e","t",":"," "," ","{","n","a","m","e",":"," ","s","t","r","i","n","g","}">>

DeltaShort ==
    <<"a","b">>

\* eighteen characters without a sentence end: with DeltaShort they fill the
\* gateway's buffer to exactly GatewayFlushLen
DeltaWord ==
    <<"r","e","t","u","r","n","s"," ","a"," ","p","e","t"," ","l","i","s","t">>

DeltaSentence ==
    <<"I","t"," ","l","i","s","t","s"," ","p","e","t","s",".">>

ErrConnect ==
    <<"A","l","l"," ","c","o","n","n","e","c","t","i","o","n"," ","a","t","t","e","m","p","t",
      "s"," ","f","a","i","l","e","d">>

ErrStatus ==
    <<"C","l","i","e","n","t"," ","e","r","r","o","r"," ","'","4","0","1"," ","U","n","a","u",
      "t","h","o","r","i","z","e","d","'"," ","f","o","r"," ","u","r","l"," ","'","h","t","t",
      "p","s",":","/","/","o","p","e","n","r","o","u","t","e","r",".","a","i","/","a","p","i",
      "/","v","1","/","c","h","a","t","/","c","o","m","p","l","e","t","i","o","n","s","'">>

ErrRead ==
    <<"T","h","e"," ","r","e","a","d"," ","o","p","e","r","a","t","i","o","n"," ","t","i","m",
      "e","d"," ","o","u","t">>

ErrEnter ==
    <<"T","o","o"," ","m","a","n","y"," ","o","p","e","n"," ","f","i","l","e","s">>

ErrSearch ==
    <<"C","o","n","n","e","c","t","i","o","n"," ","r","e","f","u","s","e","d">>


\* rag_service.py:103, the broad phrasings
BroadPhrasings == {BroadAvailable, BroadThere, BroadShow, BroadList}

\* the questions a user asks
Queries ==
    {QueryList, QueryListMixed, QueryAvailable, QueryThere, QueryShow,
     QueryPets, QueryAuthEndpoints}

\* a content delta of 50 characters without a sentence terminal
DeltaLong == [i \in 1..50 |-> "x"]

\* rag_service.py:41  len(ctx.split()) > 100
CleanWordLimit == 100

\* ------------------------------------------ RAGService: pure functions
\* get_context, lines 17-21: the query sent to the vector search
EnhancedQuery(q) ==
    IF Contains(Lower(q), KwAuth) THEN q \o AuthSuffix
    ELSE IF Contains(Lower(q), KwEndpoint) THEN q \o EndpointSuffix
    ELSE q

\* get_context, line 24: [result["text"] for result in results]
ResultTexts(results) == [i \in 1..Len(results) |-> results[i].text]

\* generate_response, line 98: not context
EmptyContext(ctx) == ctx = <<>>

\* a comparison that lowercases the query but does not strip it
IsBroadQuery_NoStrip(q) == Lower(q) \in BroadPhrasings

\* generate_response, line 103
IsBroadQuery(q) == Strip(Lower(q)) \in BroadPhrasings

\* a gate that looks for "endpoint" without lowercasing the chunk
ManyEndpoints_CaseSensitive(ctx) ==
    /\ Len(ctx) > ManyLimit
    /\ \E i \in 1..Len(ctx) : Contains(ctx[i], KwEndpoint)

\* a gate that already fires at ManyLimit chunks
ManyEndpoints_AtLimit(ctx) ==
    /\ Len(ctx) >= ManyLimit
    /\ \E i \in 1..Len(ctx) : Contains(Lower(ctx[i]), KwEndpoint)

\* generate_response, line 108
ManyEndpoints(ctx) ==
    /\ Len(ctx) > ManyLimit
    /\ \E i \in 1..Len(ctx) : Contains(Lower(ctx[i]), KwEndpoint)

\* clean_context, line 34
IsEndpointInfo(c) ==
    \E kw \in {KwOperationId, KwEndpoint, KwPath, KwGet, KwPost, KwPut, KwDelete} :
        Contains(Lower(c), kw)

\* a length test that already drops a text of exactly CleanWordLimit words
TooLongAndUnrelated_AtLimit(c) ==
    /\ Len(Split(c)) >= CleanWordLimit
    /\ ~ \E kw \in {KwEndpoint, KwApi, KwAuth, KwPath} : Contains(Lower(c), kw)

\* clean_context, line 41
TooLongAndUnrelated(c) ==
    /\ Len(Split(c)) > CleanWordLimit
    /\ ~ \E kw \in {KwEndpoint, KwApi, KwAuth, KwPath} : Contains(Lower(c), kw)

\* clean_context, lines 36 and 45: ' '.join(ctx.split())
CollapseWhitespace(c) == JoinWith(<<" ">>, Split(c))

RECURSIVE clean_context(_)
clean_context(ctx) ==
    IF ctx = <<>> THEN <<>>
    ELSE LET c == Head(ctx)
             rest == clean_context(Tail(ctx))
         IN  IF IsEndpointInfo(c) THEN <<CollapseWhitespace(c)>> \o rest
             ELSE IF TooLongAndUnrelated(c) THEN rest
             ELSE <<CollapseWhitespace(c)>> \o rest

\* build_messages with is_cli = True: the system content is the base prompt,
\* the CLI formatting block and the closing sentence, named here by block
build_messages(q, ctx) ==
    LET cleaned_context == clean_context(ctx)
        context_str == IF cleaned_context # <<>>
                       THEN JoinWith(<<"\n">>, cleaned_context)
                       ELSE NoContextText
    IN  << [role |-> "system",
            content |-> <<"BASE_PROMPT", "CLI_FORMATTING", "USE_CONTEXT">>],
           [role |-> "user",
            content |-> ContextHeader \o context_str \o QuestionHeader \o q] >>

\* --------------------------- the remote service and the vector search
\* A line of the response body, by what the gateway's parsing finds in it:
\* whether it starts with "data: " and what follows the prefix.
ContentLine(c) == [prefixed |-> TRUE, kind |-> "content", content |-> c]

DoneLine == [prefixed |-> TRUE, kind |-> "done", content |-> <<>>]

\* the lines the loop skips: an empty line, "[DONE]" and a content object
\* without the "data: " prefix, and after the prefix text that is not JSON,
\* JSON that is not an object, an object without choices, and a choice whose
\* delta has no content
MalformedLines ==
    { [prefixed |-> FALSE, kind |-> "empty", content |-> <<>>],
      [prefixed |-> FALSE, kind |-> "done", content |-> <<>>],
      [prefixed |-> FALSE, kind |-> "content", content |-> DeltaShort],
      [prefixed |-> TRUE, kind |-> "json_invalid", content |-> <<>>],
      [prefixed |-> TRUE, kind |-> "not_object", content |-> <<>>],
      [prefixed |-> TRUE, kind |-> "no_choices", content |-> <<>>],
      [prefixed |-> TRUE, kind |-> "no_content", content |-> <<>>] }

\* the lines the remote service can send
Lines ==
    { ContentLine(DeltaShort), ContentLine(DeltaWord), ContentLine(DeltaSentence),
      ContentLine(DeltaLong), ContentLine(<<>>), DoneLine } \cup MalformedLines

\* n copies of a one-letter word, separated by single spaces
Words(n) == JoinWith(<<" ">>, [i \in 1..n |-> <<"w">>])

\* n results, the i-th of which (if any) mentions an endpoint
SearchResults(n, i) ==
    [j \in 1..n |-> [text |-> IF j = i THEN ChunkEndpoint ELSE ChunkPlain]]

\* what search_similar can return: short chunks, and one or two chunks of
\* CleanWordLimit + 1 words without any keyword
ResultLists ==
    {SearchResults(n, i) : n \in 0..MaxResults, i \in 0..MaxResults}
        \cup {[j \in 1..n |-> [text |-> Words(CleanWordLimit + 1)]] : n \in 1..2}

\* str(e) of the exception that reached generate_response's handler
ErrText(e) ==
    CASE e = "enter" -> ErrEnter
      [] e = "connect" -> ErrConnect
      [] e = "status" -> ErrStatus
      [] e = "read" -> ErrRead
      [] e = "search" -> ErrSearch
      [] OTHER -> <<>>

\* ------------------- OpenRouterService.stream_chat_completion: one line
Terminals == {".", "!", "?", "\n"}

\* a loop body that flushes only above the minimum size, not at it
GatewayLine_Above(buffer, line) ==
    IF line.kind = "empty" \/ ~line.prefixed
    THEN [buffer |-> buffer, yield |-> <<>>, done |-> FALSE]
    ELSE IF line.kind = "done"
    THEN [buffer |-> buffer,
          yield |-> IF buffer # <<>> THEN <<Join(buffer)>> ELSE <<>>,
          done |-> TRUE]
    ELSE IF line.kind # "content" \/ line.content = <<>>
    THEN [buffer |-> buffer, yield |-> <<>>, done |-> FALSE]
    ELSE LET appended == Append(buffer, line.content)
         IN  IF \/ Len(Join(appended)) > GatewayFlushLen
                \/ ContainsAnyChar(line.content, Terminals)
             THEN [buffer |-> <<>>, yield |-> <<Join(appended)>>, done |-> FALSE]
             ELSE [buffer |-> appended, yield |-> <<>>, done |-> FALSE]

\* a loop body that discards what it holds when it meets a line it cannot use
GatewayLine_DropsOnSkip(buffer, line) ==
    IF line.kind = "empty" \/ ~line.prefixed
    THEN [buffer |-> buffer, yield |-> <<>>, done |-> FALSE]
    ELSE IF line.kind = "done"
    THEN [buffer |-> buffer,
          yield |-> IF buffer # <<>> THEN <<Join(buffer)>> ELSE <<>>,
          done |-> TRUE]
    ELSE IF line.kind # "content" \/ line.content = <<>>
    THEN [buffer |-> <<>>, yield |-> <<>>, done |-> FALSE]
    ELSE LET appended == Append(buffer, line.content)
         IN  IF \/ Len(Join(appended)) >= GatewayFlushLen
                \/ ContainsAnyChar(line.content, Terminals)
             THEN [buffer |-> <<>>, yield |-> <<Join(appended)>>, done |-> FALSE]
             ELSE [buffer |-> appended, yield |-> <<>>, done |-> FALSE]

\* lines 142-173: the buffer after the line, the fragment yielded (if any),
\* and whether the loop is left
GatewayLine(buffer, line) ==
    IF line.kind = "empty" \/ ~line.prefixed
    THEN [buffer |-> buffer, yield |-> <<>>, done |-> FALSE]
    ELSE IF line.kind = "done"
    THEN [buffer |-> buffer,
          yield |-> IF buffer # <<>> THEN <<Join(buffer)>> ELSE <<>>,
          done |-> TRUE]
    ELSE IF line.kind # "content" \/ line.content = <<>>
    THEN [buffer |-> buffer, yield |-> <<>>, done |-> FALSE]
    ELSE LET appended == Append(buffer, line.content)
         IN  IF \/ Len(Join(appended)) >= GatewayFlushLen
                \/ ContainsAnyChar(line.content, Terminals)
             THEN [buffer |-> <<>>, yield |-> <<Join(appended)>>, done |-> FALSE]
             ELSE [buffer |-> appended, yield |-> <<>>, done |-> FALSE]

\* the content delta the line carries, if the gateway accepts it
AcceptedDelta(line) ==
    IF line.prefixed /\ line.kind = "content" THEN line.content ELSE <<>>

\* --------------------------- RAGService.generate_response: one token
\* a loop body that yields the token just received in place of `combined`
RagToken_YieldsToken(buffer, token) ==
    LET appended == Append(buffer, token)
        combined == Join(appended)
    IN  IF Len(combined) >= RagFlushLen \/ ContainsAnyChar(token, Terminals)
        THEN [buffer |-> <<>>, yield |-> <<token>>]
        ELSE [buffer |-> appended, yield |-> <<>>]

\* lines 121-126
RagToken(buffer, token) ==
    LET appended == Append(buffer, token)
        combined == Join(appended)
    IN  IF Len(combined) >= RagFlushLen \/ ContainsAnyChar(token, Terminals)
        THEN [buffer |-> <<>>, yield |-> <<combined>>]
        ELSE [buffer |-> appended, yield |-> <<>>]

\* ====================================================== parsed documents
\* A decoded JSON/YAML value: a string, a mapping (its items in key order)
\* or null.
Str(s) == [t |-> "str", s |-> s, m |-> <<>>]

Map(items) == [t |-> "map", s |-> <<>>, m |-> items]

Null == [t |-> "null", s |-> <<>>, m |-> <<>>]

\* key in d
HasKey(d, key) == \E i \in 1..Len(d.m) : d.m[i][1] = key

\* d[key]
Get(d, key) == d.m[CHOOSE i \in 1..Len(d.m) : d.m[i][1] = key][2]

\* d.get(key)
GetOrNone(d, key) == IF HasKey(d, key) THEN Get(d, key) ELSE Null

\* the keys the parser and the chunker look up
Key ==
    [openapi |-> <<"o","p","e","n","a","p","i">>,
     info |-> <<"i","n","f","o">>,
     paths |-> <<"p","a","t","h","s">>,
     components |-> <<"c","o","m","p","o","n","e","n","t","s">>,
     title |-> <<"t","i","t","l","e">>,
     version |-> <<"v","e","r","s","i","o","n">>,
     description |-> <<"d","e","s","c","r","i","p","t","i","o","n">>]

\* a verb list without 'patch'
Verbs_NoPatch ==
    {<<"g","e","t">>, <<"p","o","s","t">>, <<"p","u","t">>,
     <<"d","e","l","e","t","e">>}

\* chunking_service.py:73
Verbs ==
    { <<"g","e","t">>, <<"p","o","s","t">>, <<"p","u","t">>,
      <<"d","e","l","e","t","e">>, <<"p","a","t","c","h">> }

\* json.dumps(v, indent=2), at nesting depth `depth`
RECURSIVE JsonDumps(_, _)
JsonDumps(v, depth) ==
    LET pad(n) == [i \in 1..(2 * n) |-> " "]
        item(i) == pad(depth + 1) \o <<"\"">> \o v.m[i][1] \o <<"\"", ":", " ">>
                       \o JsonDumps(v.m[i][2], depth + 1)
    IN  CASE v.t = "str" -> <<"\"">> \o v.s \o <<"\"">>
          [] v.t = "null" -> <<"n","u","l","l">>
          [] OTHER ->
               IF v.m = <<>> THEN <<"{", "}">>
               ELSE <<"{", "\n">>
                    \o JoinWith(<<",", "\n">>, [i \in 1..Len(v.m) |-> item(i)])
                    \o <<"\n">> \o pad(depth) \o <<"}">>

\* ==================================== OpenAPIChunker.chunk_specification
\* ChunkMetadata.to_dict() with the text; a field that is None is <<>>
Chunk(text, spec_id, chunk_id, path, method, component_type, component_name) ==
    [text |-> text,
     metadata |-> [spec_id |-> spec_id, chunk_id |-> chunk_id, path |-> path,
                   method |-> method, component_type |-> component_type,
                   component_name |-> component_name]]

\* lines 72-81: the chunks of one path item, one per verb key, in key order
RECURSIVE OperationChunks(_, _, _, _)
OperationChunks(path, items, j, spec_id) ==
    IF j > Len(items) THEN <<>>
    ELSE LET method == items[j][1]
             operation == items[j][2]
             chunk_id == spec_id \o <<"_","p","a","t","h","_">> \o path \o <<"_">>
                             \o method
         IN  (IF method \in Verbs
              THEN << Chunk(JsonDumps(operation, 0), spec_id, chunk_id, path, method,
                            <<>>, <<>>) >>
              ELSE <<>>)
             \o OperationChunks(path, items, j + 1, spec_id)

\* lines 94-102: the chunks of one component category, in key order
ComponentChunks(component_type, items, spec_id) ==
    [j \in 1..Len(items) |->
        Chunk(JsonDumps(items[j][2], 0), spec_id,
              spec_id \o <<"_","c","o","m","p","o","n","e","n","t","_">>
                  \o component_type \o <<"_">> \o items[j][1],
              <<>>, <<>>, component_type, items[j][1])]

\* lines 71-72 and 93-94: the two nested loops over a section; `.items()` of
\* a value that is no mapping raises, after the chunks yielded before it
RECURSIVE SectionChunks(_, _, _, _)
SectionChunks(section, items, i, spec_id) ==
    IF i > Len(items) THEN [chunks |-> <<>>, failed |-> FALSE]
    ELSE IF items[i][2].t # "map" THEN [chunks |-> <<>>, failed |-> TRUE]
    ELSE LET here == IF section = "paths"
                     THEN OperationChunks(items[i][1], items[i][2].m, 1, spec_id)
                     ELSE ComponentChunks(items[i][1], items[i][2].m, spec_id)
             rest == SectionChunks(section, items, i + 1, spec_id)
         IN  [chunks |-> here \o rest.chunks, failed |-> rest.failed]

\* lines 70-71 and 92-93: a section that is absent yields nothing
Section(spec, section, spec_id) ==
    IF ~HasKey(spec, Key[section]) THEN [chunks |-> <<>>, failed |-> FALSE]
    ELSE IF Get(spec, Key[section]).t # "map" THEN [chunks |-> <<>>, failed |-> TRUE]
    ELSE SectionChunks(section, Get(spec, Key[section]).m, 1, spec_id)

\* lines 58-110: the chunks the generator yields, in order, and whether it
\* raises after them
chunk_specification(spec, spec_id) ==
    LET info == IF HasKey(spec, Key.info)
                THEN << Chunk(JsonDumps(Get(spec, Key.info), 0), spec_id,
                              spec_id \o <<"_","i","n","f","o">>, <<>>, <<>>,
                              <<"i","n","f","o">>, <<>>) >>
                ELSE <<>>
        paths == Section(spec, "paths", spec_id)
        components == Section(spec, "components", spec_id)
    IN  IF paths.failed
        THEN [chunks |-> info \o paths.chunks, failed |-> TRUE]
        ELSE [chunks |-> info \o paths.chunks \o components.chunks,
              failed |-> components.failed]

\* ================================================= uploads and the parser
\* the parsed values the uploads decode to
Documents ==
    LET
        \* a document with info, two single-verb paths and one schema
        DocPetstore ==
            Map(<<
              <<<<"o","p","e","n","a","p","i">>, Str(<<"3",".","0",".","0">>)>>,
              <<<<"i","n","f","o">>, Map(<<
                <<<<"t","i","t","l","e">>, Str(<<"P","e","t","s">>)>>,
                <<<<"v","e","r","s","i","o","n">>, Str(<<"1">>)>>,
                <<<<"d","e","s","c","r","i","p","t","i","o","n">>, Str(<<"A"," ","p","e","t"," ","s","t","o","r","e">>)>> >>)>>,
              <<<<"p","a","t","h","s">>, Map(<<
                <<<<"/","p","e","t","s">>, Map(<<
                  <<<<"g","e","t">>, Map(<<
                    <<<<"s","u","m","m","a","r","y">>, Str(<<"L","i","s","t"," ","p","e","t","s">>)>> >>)>> >>)>>,
                <<<<"/","p","e","t","s","/","{","i","d","}">>, Map(<<
                  <<<<"s","u","m","m","a","r","y">>, Str(<<"O","n","e"," ","p","e","t">>)>>,
                  <<<<"d","e","l","e","t","e">>, Map(<<
                    <<<<"s","u","m","m","a","r","y">>, Str(<<"D","r","o","p"," ","a"," ","p","e","t">>)>> >>)>> >>)>> >>)>>,
              <<<<"c","o","m","p","o","n","e","n","t","s">>, Map(<<
                <<<<"s","c","h","e","m","a","s">>, Map(<<
                  <<<<"P","e","t">>, Map(<<
                    <<<<"t","y","p","e">>, Str(<<"o","b","j","e","c","t">>)>> >>)>> >>)>> >>)>> >>)

        \* no info; paths and verbs in an order that is not sorted; a key 'GET' that is no verb key
        DocNoInfo ==
            Map(<<
              <<<<"o","p","e","n","a","p","i">>, Str(<<"3",".","1",".","0">>)>>,
              <<<<"p","a","t","h","s">>, Map(<<
                <<<<"/","b">>, Map(<<
                  <<<<"p","o","s","t">>, Map(<<
                    <<<<"a">>, Str(<<"1">>)>> >>)>>,
                  <<<<"g","e","t">>, Map(<<
                    <<<<"a">>, Str(<<"2">>)>> >>)>> >>)>>,
                <<<<"/","a">>, Map(<<
                  <<<<"G","E","T">>, Map(<<
                    <<<<"a">>, Str(<<"3">>)>> >>)>>,
                  <<<<"p","a","t","c","h">>, Map(<<>>)>> >>)>> >>)>> >>)

        \* two component categories whose names join to the same text
        DocCollide ==
            Map(<<
              <<<<"o","p","e","n","a","p","i">>, Str(<<"3",".","0",".","0">>)>>,
              <<<<"i","n","f","o">>, Map(<<
                <<<<"t","i","t","l","e">>, Str(<<"T">>)>> >>)>>,
              <<<<"c","o","m","p","o","n","e","n","t","s">>, Map(<<
                <<<<"x","-","a">>, Map(<<
                  <<<<"b","_","c">>, Map(<<
                    <<<<"k">>, Str(<<"1">>)>> >>)>> >>)>>,
                <<<<"x","-","a","_","b">>, Map(<<
                  <<<<"c">>, Map(<<
                    <<<<"k">>, Str(<<"2">>)>> >>)>> >>)>> >>)>> >>)

        \* the second path item is null
        DocBadPath ==
            Map(<<
              <<<<"o","p","e","n","a","p","i">>, Str(<<"3",".","0",".","0">>)>>,
              <<<<"i","n","f","o">>, Map(<<
                <<<<"t","i","t","l","e">>, Str(<<"B","a","d">>)>>,
                <<<<"v","e","r","s","i","o","n">>, Str(<<"2">>)>> >>)>>,
              <<<<"p","a","t","h","s">>, Map(<<
                <<<<"/","o","k">>, Map(<<
                  <<<<"g","e","t">>, Map(<<
                    <<<<"a">>, Str(<<"1">>)>> >>)>> >>)>>,
                <<<<"/","b","a","d">>, Null>>,
                <<<<"/","l","a","t","e">>, Map(<<
                  <<<<"g","e","t">>, Map(<<>>)>> >>)>> >>)>> >>)

        \* 'info' is present and null
        DocInfoNull ==
            Map(<<
              <<<<"o","p","e","n","a","p","i">>, Str(<<"3",".","0",".","0">>)>>,
              <<<<"i","n","f","o">>, Null>> >>)

        \* a mapping without the key 'openapi'
        DocNoOpenapi ==
            Map(<<
              <<<<"s","w","a","g","g","e","r">>, Str(<<"2",".","0">>)>>,
              <<<<"i","n","f","o">>, Map(<<
                <<<<"t","i","t","l","e">>, Str(<<"O","l","d">>)>> >>)>> >>)

        \* a text that YAML decodes to a string
        DocScalar ==
            Str(<<"h","e","l","l","o">>)
    IN  <<DocPetstore, DocNoInfo, DocCollide, DocBadPath, DocInfoNull,
          DocNoOpenapi, DocScalar>>

\* An uploaded file, by what the decoders make of its content: `enc` is
\* "json" (json.loads and yaml.safe_load both decode it), "yaml" (only
\* yaml.safe_load does) or "neither"; `doc` is the value it decodes to.
Uploads ==
    << [suffix |-> ".json", enc |-> "json", doc |-> 1],
       [suffix |-> ".yaml", enc |-> "yaml", doc |-> 2],
       [suffix |-> ".yaml", enc |-> "yaml", doc |-> 3],
       [suffix |-> ".json", enc |-> "json", doc |-> 4],
       [suffix |-> ".json", enc |-> "json", doc |-> 5],
       [suffix |-> ".yaml", enc |-> "yaml", doc |-> 6],
       [suffix |-> ".yaml", enc |-> "yaml", doc |-> 7],
       [suffix |-> ".json", enc |-> "neither", doc |-> 7],
       [suffix |-> ".json", enc |-> "yaml", doc |-> 1],
       [suffix |-> ".yaml", enc |-> "json", doc |-> 2] >>

\* json.loads(content): the value, or JSONDecodeError
JsonLoads(u) ==
    IF u.enc = "json" THEN [ok |-> TRUE, value |-> Documents[u.doc]]
    ELSE [ok |-> FALSE, value |-> Null]

\* yaml.safe_load(content): the value, or YAMLError
YamlSafeLoad(u) ==
    IF u.enc \in {"json", "yaml"} THEN [ok |-> TRUE, value |-> Documents[u.doc]]
    ELSE [ok |-> FALSE, value |-> Null]

\* parse_openapi_spec raised HTTPException(status)
ParseError(status) ==
    [ok |-> FALSE, status |-> status, content_type |-> "none", title |-> Null,
     version |-> Null, description |-> Null]

\* file_service.py:61-116
parse_openapi_spec(u) ==
    LET j == JsonLoads(u)
        y == YamlSafeLoad(u)
        spec == IF j.ok THEN j.value ELSE y.value
        info == IF HasKey(spec, Key.info) THEN Get(spec, Key.info) ELSE Map(<<>>)
    IN  IF ~j.ok /\ ~y.ok THEN ParseError(400)
        ELSE IF spec.t # "map" THEN ParseError(400)
        ELSE IF ~HasKey(spec, Key.openapi) THEN ParseError(400)
        ELSE IF info.t # "map" THEN ParseError(500)
        ELSE [ok |-> TRUE, status |-> 0,
              content_type |-> IF j.ok THEN "json" ELSE "yaml",
              title |-> GetOrNone(info, Key.title),
              version |-> GetOrNone(info, Key.version),
              description |-> GetOrNone(info, Key.description)]

\* file_service.py:154-155: _process_file decodes by the file's suffix
DecodeBySuffix(u) ==
    IF u.suffix = ".json" THEN JsonLoads(u) ELSE YamlSafeLoad(u)

\* ================================================== VectorStorageService
\* str(uuid.uuid4()) of the k-th file saved, or the k-th document id
SpecId(k) == <<"i", "d", <<"1","2","3","4","5","6","7","8","9">>[k]>>

SpecIds == {SpecId(k) : k \in 1..MaxUploads}

\* the salts hash() has in the processes that run one after the other
HashSeeds == {1, 2}

\* lines 94-98: abs(hash(f"{spec_id}_{chunk_id}")) + 1.  hash() of a str is
\* salted per process: within one process equal texts give equal ids, and a
\* restarted process gives other ids unless it runs with the same seed.  The
\* id is kept as the pair it is a function of.
_generate_point_id(seed, spec_id, chunk_id) ==
    [seed |-> seed, key |-> spec_id \o <<"_">> \o chunk_id]

\* the queries of the searches
SearchQueries == {QueryList, QueryPets}

\* The similarity of the embedding of a query to the embedding of a text:
\* the number of words of the query that occur in the text.
Score(q, text) ==
    LET words == Split(Lower(q))
    IN  Cardinality({i \in 1..Len(words) : Contains(Lower(text), words[i])})

\* lines 109-117, model.encode(texts): the vector of a text, kept as the
\* similarity it gives with each query
Embed(text) == [q \in SearchQueries |-> Score(q, text)]

\* lines 141-152: the points of a batch
BatchPoints(seed, batch, spec_id) ==
    [i \in 1..Len(batch) |->
        [id |-> _generate_point_id(seed, spec_id, batch[i].metadata.chunk_id),
         vector |-> Embed(batch[i].text),
         payload |-> [text |-> batch[i].text, metadata |-> batch[i].metadata,
                      spec_id |-> spec_id]]]

\* client.upsert(points): a point replaces the point of the same id; of two
\* points of the batch with one id the later stays
Upsert(pts, new) ==
    {p \in pts : \A i \in 1..Len(new) : new[i].id # p.id}
    \cup {new[i] : i \in {k \in 1..Len(new) :
                            \A l \in (k + 1)..Len(new) : new[l].id # new[k].id}}

\* the points that match the filter on the payload key "spec_id"
Matching(pts, spec_id) == {p \in pts : p.payload.spec_id = spec_id}

\* lines 251-266
get_chunk_count(pts, spec_id) == Cardinality(Matching(pts, spec_id))

\* client.search: the n best of the candidates, best first
RECURSIVE Ranked(_, _, _)
Ranked(cands, q, n) ==
    IF n = 0 \/ cands = {} THEN <<>>
    ELSE LET best == CHOOSE p \in cands :
                         \A o \in cands : p.vector[q] >= o.vector[q]
         IN  <<best>> \o Ranked(cands \ {best}, q, n - 1)

\* a search that cuts the ranking to `limit` before it filters
search_chunks_LimitFirst(pts, q, spec_id, limit) ==
    LET hits == Ranked(pts, q, limit)
        kept == SelectSeq(hits, LAMBDA p : spec_id = <<>> \/ p.payload.spec_id = spec_id)
    IN  [i \in 1..Len(kept) |->
            [text |-> kept[i].payload.text, metadata |-> kept[i].payload.metadata,
             score |-> kept[i].vector[q]]]

\* lines 197-232; spec_id = <<>> stands for None and for ""
search_chunks(pts, q, spec_id, limit) ==
    LET hits == Ranked(IF spec_id # <<>> THEN Matching(pts, spec_id) ELSE pts, q, limit)
    IN  [i \in 1..Len(hits) |->
            [text |-> hits[i].payload.text, metadata |-> hits[i].payload.metadata,
             score |-> hits[i].vector[q]]]

\* lines 234-249: client.delete with the filter on "spec_id"
delete_spec_chunks(pts, spec_id) == pts \ Matching(pts, spec_id)

\* the limits of the searches: 5 is the default of line 201
SearchLimits == {1, 2, 5}

\* the document whose chunks are stored under the k-th id
DocOfId(spec_id) ==
    Documents[(((CHOOSE k \in 1..MaxUploads : spec_id = SpecId(k)) - 1) % 3) + 1]

\* a finished operation, by name and outcome
Finished(op, status, spec_id) ==
    [op |-> op, status |-> status, spec_id |-> spec_id, before |-> {},
     filesBefore |-> {}, query |-> <<>>, limit |-> 0, result |-> <<>>, n |-> 0,
     again |-> FALSE, stage |-> "none", upload |-> 0, parse |-> ParseError(0)]

\* no ingestion or store is running
NoJob ==
    [pc |-> "idle", op |-> "none", spec_id |-> <<>>, chunks |-> <<>>, next |-> 1,
     before |-> {}, again |-> FALSE, upload |-> 0, parse |-> ParseError(0)]

\* every chunk of the sequence has a point of its document with its text
FullyStored(pts, chunks, spec_id) ==
    /\ chunks # <<>>
    /\ \A i \in 1..Len(chunks) :
           \E p \in Matching(pts, spec_id) :
               /\ p.payload.metadata.chunk_id = chunks[i].metadata.chunk_id
               /\ p.payload.text = chunks[i].text

\* ------------------------------------------------------------- the state
VARIABLES
    query,       \* generate_response's argument
    pc,          \* where generate_response stands
    searchQuery, \* the query get_context passed to search_similar
    context,     \* generate_response's local `context`
    messages,    \* generate_response's local `messages`
    clients,     \* every httpx.AsyncClient created so far: "open" or "closed"
    client,      \* llm_service.client: 0 for None, else an index into clients
    gwpc,        \* where stream_chat_completion stands
    gwBuffer,    \* stream_chat_completion's local `buffer`
    nLines,      \* lines read from response.aiter_lines()
    raw,         \* the concatenation of the content deltas received so far
    tok,         \* the fragment stream_chat_completion yielded, not yet taken
    gwOut,       \* every fragment stream_chat_completion yielded
    ending,      \* how the response ended: "sentinel", "eof", "raised", or "none"
    ragBuffer,   \* generate_response's local `buffer`
    out,         \* every fragment generate_response yielded to its consumer
    err,         \* the exception on its way to generate_response's handler
    outcome,     \* the terminal state of the query
    log,         \* the calls made to the collaborators, in order
    ret,         \* what get_response_with_context returned: (stream, context)
    conc,        \* the concurrent queries on the shared OpenRouterService
    files,       \* the files of FileService.upload_dir
    nFiles,      \* how many files save_file has named so far
    points,      \* the points of the Qdrant collection "openapi_chunks"
    hashSeed,    \* the salt of hash() in the running process
    job,         \* the ingestion or store_chunks call in progress
    last,        \* the operation that finished last, and its outcome
    apiKey,      \* settings.OPENROUTER_API_KEY
    svc,         \* the OpenRouterService object, once constructed
    ws           \* handle_chat_websocket and its socket

\* the state of the other services
\* FileService, VectorStorageService and the collection
storeVars == <<files, nFiles, points, hashSeed, job, last>>

\* the settings, the OpenRouterService object and the websocket handler
appVars == <<apiKey, svc, ws>>

sysVars == <<conc, storeVars, appVars>>

\* the state outside generate_response and stream_chat_completion
extVars == <<ret, sysVars>>

vars ==
    <<query, pc, searchQuery, context, messages, clients, client, gwpc, gwBuffer,
      nLines, raw, tok, gwOut, ending, ragBuffer, out, err, outcome, log, extVars>>

ragVars == <<query, pc, searchQuery, context, messages, ragBuffer, out, outcome>>

gwVars == <<gwpc, gwBuffer, nLines, raw, tok, gwOut, ending>>

\* the state of one query and of the OpenRouterService
queryVars == <<ragVars, gwVars, clients, client, err, log, ret>>

\* get_response_with_context has not returned
NotReturned == [kind |-> "none", msg |-> <<>>, context |-> <<>>]

\* no file, no point, no operation yet
StoreIdle ==
    /\ files = {}
    /\ nFiles = 0
    /\ points = {}
    /\ hashSeed = 1
    /\ job = NoJob
    /\ last = Finished("none", "ok", <<>>)

\* the websockets whose queries run concurrently
QueryIds == {1, 2}

\* no concurrent query has started
NoQueries ==
    [i \in QueryIds |-> [pc |-> "idle", using |-> 0, got |-> 0, failed |-> FALSE]]

\* settings.OPENROUTER_API_KEY (config.py:23): None, or the string of the
\* environment, which may be empty
ApiKeys ==
    { [set |-> FALSE, value |-> <<>>],
      [set |-> TRUE, value |-> <<>>],
      [set |-> TRUE, value |-> <<"s","k","-","1">>] }

\* bool(key) of an Optional[str]
Truthy(key) == key.set /\ key.value # <<>>

\* OpenRouterService() has not been called
NoService == [made |-> "no", api_key |-> [set |-> FALSE, value |-> <<>>]]

\* no websocket has reached handle_chat_websocket
NoSocket ==
    [pc |-> "none", active |-> FALSE, connected |-> FALSE, exc |-> "none",
     served |-> 0]

\* main.py:16-17 has run with a key configured: the services exist, no
\* websocket is connected
AppReady ==
    /\ apiKey = [set |-> TRUE, value |-> <<"s","k","-","1">>]
    /\ svc = [made |-> "yes", api_key |-> apiKey]
    /\ ws = NoSocket

\* nothing outside the query has happened
ExtIdle ==
    /\ ret = NotReturned
    /\ conc = NoQueries
    /\ StoreIdle

Init ==
    /\ query \in Queries
    /\ pc = "start"
    /\ searchQuery = <<>>
    /\ context = <<>>
    /\ messages = <<>>
    /\ clients = <<>>
    /\ client = 0
    /\ gwpc = "unstarted"
    /\ gwBuffer = <<>>
    /\ nLines = 0
    /\ raw = <<>>
    /\ tok = <<>>
    /\ gwOut = <<>>
    /\ ending = "none"
    /\ ragBuffer = <<>>
    /\ out = <<>>
    /\ err = "none"
    /\ outcome = "none"
    /\ log = <<>>
    /\ ExtIdle
    /\ AppReady

\* ------------------------------------------------ RAGService.get_context
\* lines 15-23: build the enhanced query and call search_similar
SearchCall ==
    /\ pc = "start"
    /\ searchQuery' = EnhancedQuery(query)
    /\ log' = Append(log, "search_call")
    /\ pc' = "searching"
    /\ UNCHANGED <<query, context, messages, clients, client, ragBuffer, out, err,
                   outcome>>
    /\ UNCHANGED gwVars
    /\ UNCHANGED extVars

\* lines 23-24: the search returns
SearchReturn(results) ==
    /\ pc = "searching"
    /\ context' = ResultTexts(results)
    /\ log' = Append(log, "search_return")
    /\ pc' = "gate_empty"
    /\ UNCHANGED <<query, searchQuery, messages, clients, client, ragBuffer, out, err,
                   outcome>>
    /\ UNCHANGED gwVars
    /\ UNCHANGED extVars

\* a get_context without its try/except: the failure reaches the handler of
\* generate_response
SearchRaise_Propagates ==
    /\ pc = "searching"
    /\ err' = "search"
    /\ log' = Append(log, "search_raise")
    /\ pc' = "except"
    /\ UNCHANGED <<query, searchQuery, context, messages, clients, client, ragBuffer,
                   out, outcome>>
    /\ UNCHANGED gwVars
    /\ UNCHANGED extVars

\* a get_context that searches again after a failure
SearchRaise_Retries ==
    /\ pc = "searching"
    /\ log' = Append(log, "search_raise")
    /\ pc' = "start"
    /\ UNCHANGED <<query, searchQuery, context, messages, clients, client, ragBuffer,
                   out, err, outcome>>
    /\ UNCHANGED gwVars
    /\ UNCHANGED extVars

\* lines 25-27: the embedding or the search raises; get_context returns []
SearchRaise ==
    /\ pc = "searching"
    /\ context' = <<>>
    /\ log' = Append(log, "search_raise")
    /\ pc' = "gate_empty"
    /\ UNCHANGED <<query, searchQuery, messages, clients, client, ragBuffer, out, err,
                   outcome>>
    /\ UNCHANGED gwVars
    /\ UNCHANGED extVars

\* ------------------------------------------ RAGService.generate_response
\* a gate yields its canned message and returns
Refuse(msg) ==
    /\ out' = Append(out, msg)
    /\ outcome' = "Refused"
    /\ pc' = "done"

\* a generate_response without the empty-context gate
CheckEmpty_Skipped ==
    /\ pc = "gate_empty"
    /\ pc' = "gate_broad"
    /\ UNCHANGED <<query, searchQuery, context, messages, clients, client, ragBuffer,
                   out, outcome, err, log>>
    /\ UNCHANGED gwVars
    /\ UNCHANGED extVars

\* a gate that looks at the context after cleaning
CheckEmpty_AfterCleaning ==
    /\ pc = "gate_empty"
    /\ IF EmptyContext(clean_context(context))
       THEN Refuse(RefusalMsg)
       ELSE pc' = "gate_broad" /\ UNCHANGED <<out, outcome>>
    /\ UNCHANGED <<query, searchQuery, context, messages, clients, client, ragBuffer,
                   err, log>>
    /\ UNCHANGED gwVars
    /\ UNCHANGED extVars

\* lines 98-100
CheckEmpty ==
    /\ pc = "gate_empty"
    /\ IF EmptyContext(context)
       THEN Refuse(RefusalMsg)
       ELSE pc' = "gate_broad" /\ UNCHANGED <<out, outcome>>
    /\ UNCHANGED <<query, searchQuery, context, messages, clients, client, ragBuffer,
                   err, log>>
    /\ UNCHANGED gwVars
    /\ UNCHANGED extVars

\* the many-endpoints gate evaluated before the broad-phrasing gate
CheckBroad_ManyFirst ==
    /\ pc = "gate_broad"
    /\ IF ManyEndpoints(context)
       THEN Refuse(ManyMsg)
       ELSE IF IsBroadQuery(query)
       THEN Refuse(BroadMsg)
       ELSE pc' = "gate_many" /\ UNCHANGED <<out, outcome>>
    /\ UNCHANGED <<query, searchQuery, context, messages, clients, client, ragBuffer,
                   err, log>>
    /\ UNCHANGED gwVars
    /\ UNCHANGED extVars

\* lines 103-105
CheckBroad ==
    /\ pc = "gate_broad"
    /\ IF IsBroadQuery(query)
       THEN Refuse(BroadMsg)
       ELSE pc' = "gate_many" /\ UNCHANGED <<out, outcome>>
    /\ UNCHANGED <<query, searchQuery, context, messages, clients, client, ragBuffer,
                   err, log>>
    /\ UNCHANGED gwVars
    /\ UNCHANGED extVars

\* lines 108-110
CheckMany ==
    /\ pc = "gate_many"
    /\ IF ManyEndpoints(context)
       THEN Refuse(ManyMsg)
       ELSE pc' = "build" /\ UNCHANGED <<out, outcome>>
    /\ UNCHANGED <<query, searchQuery, context, messages, clients, client, ragBuffer,
                   err, log>>
    /\ UNCHANGED gwVars
    /\ UNCHANGED extVars

\* a call that hands build_messages the query that was sent to the search
Build_EnrichedQuery ==
    /\ pc = "build"
    /\ messages' = build_messages(searchQuery, context)
    /\ pc' = "enter"
    /\ UNCHANGED <<query, searchQuery, context, clients, client, ragBuffer, out, err,
                   outcome, log>>
    /\ UNCHANGED gwVars
    /\ UNCHANGED extVars

\* line 113
Build ==
    /\ pc = "build"
    /\ messages' = build_messages(query, context)
    /\ pc' = "enter"
    /\ UNCHANGED <<query, searchQuery, context, clients, client, ragBuffer, out, err,
                   outcome, log>>
    /\ UNCHANGED gwVars
    /\ UNCHANGED extVars

\* lines 116-117 with OpenRouterService.__aenter__, lines 39-48
Enter ==
    /\ pc = "enter"
    /\ clients' = Append(clients, "open")
    /\ client' = Len(clients) + 1
    /\ log' = Append(log, "aenter")
    /\ pc' = "call_stream"
    /\ UNCHANGED <<query, searchQuery, context, messages, ragBuffer, out, err, outcome>>
    /\ UNCHANGED gwVars
    /\ UNCHANGED extVars

\* line 117: creating the client raises; the inner try has not been entered
EnterRaise ==
    /\ pc = "enter"
    /\ log' = Append(log, "aenter_raise")
    /\ err' = "enter"
    /\ pc' = "except"
    /\ UNCHANGED <<query, searchQuery, context, messages, clients, client, ragBuffer,
                   out, outcome>>
    /\ UNCHANGED gwVars
    /\ UNCHANGED extVars

\* lines 119-120: the buffer is created and the completion stream is started
StreamCall ==
    /\ pc = "call_stream"
    /\ ragBuffer' = <<>>
    /\ log' = Append(log, "stream_call")
    /\ gwpc' = "opening"
    /\ pc' = "stream"
    /\ UNCHANGED <<query, searchQuery, context, messages, clients, client, out, err,
                   outcome>>
    /\ UNCHANGED <<gwBuffer, nLines, raw, tok, gwOut, ending>>
    /\ UNCHANGED extVars

\* ---------------------------- OpenRouterService.stream_chat_completion
\* lines 129-140: the POST is sent; a connection error or a status >= 400
\* raises, otherwise the buffer is created and the lines are read
GwOpen(status) ==
    /\ pc = "stream"
    /\ gwpc = "opening"
    /\ IF status = "ok"
       THEN gwpc' = "reading" /\ gwBuffer' = <<>> /\ UNCHANGED <<err, ending>>
       ELSE gwpc' = "raised" /\ err' = status /\ ending' = "raised"
            /\ UNCHANGED gwBuffer
    /\ UNCHANGED <<nLines, raw, tok, gwOut, clients, client, log>>
    /\ UNCHANGED ragVars
    /\ UNCHANGED extVars

\* lines 141-173: one line of the response is read and handled
GwLine(line) ==
    /\ pc = "stream"
    /\ gwpc = "reading"
    /\ tok = <<>>
    /\ line = DoneLine \/ nLines < MaxLines
    /\ LET r == GatewayLine(gwBuffer, line)
       IN  /\ gwBuffer' = r.buffer
           /\ tok' = r.yield
           /\ gwOut' = gwOut \o r.yield
           /\ gwpc' = IF r.done THEN "ended" ELSE "reading"
           /\ ending' = IF r.done THEN "sentinel" ELSE ending
    /\ raw' = raw \o AcceptedDelta(line)
    /\ nLines' = nLines + 1
    /\ UNCHANGED <<clients, client, err, log>>
    /\ UNCHANGED ragVars
    /\ UNCHANGED extVars

\* line 141: the line sequence finishes without a '[DONE]' line
GwEof ==
    /\ pc = "stream"
    /\ gwpc = "reading"
    /\ tok = <<>>
    /\ gwpc' = "ended"
    /\ ending' = "eof"
    /\ UNCHANGED <<gwBuffer, nLines, raw, tok, gwOut, clients, client, err, log>>
    /\ UNCHANGED ragVars
    /\ UNCHANGED extVars

\* line 141 and lines 175-177: reading the response raises
GwRaise ==
    /\ pc = "stream"
    /\ gwpc = "reading"
    /\ tok = <<>>
    /\ gwpc' = "raised"
    /\ err' = "read"
    /\ ending' = "raised"
    /\ UNCHANGED <<gwBuffer, nLines, raw, tok, gwOut, clients, client, log>>
    /\ UNCHANGED ragVars
    /\ UNCHANGED extVars

\* ------------------------------- generate_response: the streaming loop
\* lines 120-126: the loop body on the fragment the gateway yielded
RagTake ==
    /\ pc = "stream"
    /\ tok # <<>>
    /\ LET r == RagToken(ragBuffer, tok[1])
       IN  /\ ragBuffer' = r.buffer
           /\ out' = out \o r.yield
    /\ tok' = <<>>
    /\ UNCHANGED <<query, pc, searchQuery, context, messages, outcome>>
    /\ UNCHANGED <<gwpc, gwBuffer, nLines, raw, gwOut, ending, clients, client, err,
                   log>>
    /\ UNCHANGED extVars

\* a generator that ends without yielding what is still buffered
RagAfterLoop_NoFlush ==
    /\ pc = "stream"
    /\ gwpc = "ended"
    /\ tok = <<>>
    /\ pc' = "finally"
    /\ UNCHANGED <<query, searchQuery, context, messages, ragBuffer, out, outcome>>
    /\ UNCHANGED <<clients, client, err, log>>
    /\ UNCHANGED gwVars
    /\ UNCHANGED extVars

\* lines 127-128: the gateway's stream has ended; what is buffered is yielded
RagAfterLoop ==
    /\ pc = "stream"
    /\ gwpc = "ended"
    /\ tok = <<>>
    /\ out' = IF ragBuffer # <<>> THEN Append(out, Join(ragBuffer)) ELSE out
    /\ pc' = "finally"
    /\ UNCHANGED <<query, searchQuery, context, messages, ragBuffer, outcome>>
    /\ UNCHANGED <<clients, client, err, log>>
    /\ UNCHANGED gwVars
    /\ UNCHANGED extVars

\* a handler path that yields what is still buffered when the stream raises
RagStreamRaised_Flushes ==
    /\ pc = "stream"
    /\ gwpc = "raised"
    /\ out' = IF ragBuffer # <<>> THEN Append(out, Join(ragBuffer)) ELSE out
    /\ pc' = "finally"
    /\ UNCHANGED <<query, searchQuery, context, messages, ragBuffer, outcome>>
    /\ UNCHANGED <<clients, client, err, log>>
    /\ UNCHANGED gwVars
    /\ UNCHANGED extVars

\* a loop that swallows the failure and waits on the dead stream
RagStreamRaised_Hangs ==
    /\ pc = "stream"
    /\ gwpc = "raised"
    /\ gwpc' = "dead"
    /\ UNCHANGED <<gwBuffer, nLines, raw, tok, gwOut, ending>>
    /\ UNCHANGED <<clients, client, err, log>>
    /\ UNCHANGED ragVars
    /\ UNCHANGED extVars

\* line 120: the gateway's stream raised into the loop
RagStreamRaised ==
    /\ pc = "stream"
    /\ gwpc = "raised"
    /\ pc' = "finally"
    /\ UNCHANGED <<query, searchQuery, context, messages, ragBuffer, out, outcome>>
    /\ UNCHANGED <<clients, client, err, log>>
    /\ UNCHANGED gwVars
    /\ UNCHANGED extVars

\* lines 129-130 with OpenRouterService.__aexit__, lines 52-53
Finally ==
    /\ pc = "finally"
    /\ clients' = IF client # 0 THEN [clients EXCEPT ![client] = "closed"] ELSE clients
    /\ log' = Append(log, "aexit")
    /\ IF err = "none"
       THEN pc' = "done" /\ outcome' = "Answered"
       ELSE pc' = "except" /\ UNCHANGED outcome
    /\ UNCHANGED <<query, searchQuery, context, messages, ragBuffer, out, client, err>>
    /\ UNCHANGED gwVars
    /\ UNCHANGED extVars

\* a generate_response without its handler: the exception reaches the consumer
Except_Propagates ==
    /\ pc = "except"
    /\ pc' = "propagated"
    /\ UNCHANGED <<query, searchQuery, context, messages, ragBuffer, out, outcome,
                   clients, client, err, log>>
    /\ UNCHANGED gwVars
    /\ UNCHANGED extVars

\* lines 131-133: the handler yields the error fragment
Except ==
    /\ pc = "except"
    /\ out' = Append(out, ErrorPrefix \o ErrText(err))
    /\ outcome' = "Errored"
    /\ pc' = "done"
    /\ UNCHANGED <<query, searchQuery, context, messages, ragBuffer, clients, client,
                   err, log>>
    /\ UNCHANGED gwVars
    /\ UNCHANGED extVars

Next ==
    \/ SearchCall
    \/ \E results \in ResultLists : SearchReturn(results)
    \/ SearchRaise
    \/ CheckEmpty
    \/ CheckBroad
    \/ CheckMany
    \/ Build
    \/ Enter
    \/ EnterRaise
    \/ StreamCall
    \/ \E status \in {"ok", "connect", "status"} : GwOpen(status)
    \/ \E line \in Lines : GwLine(line)
    \/ GwEof
    \/ GwRaise
    \/ RagTake
    \/ RagAfterLoop
    \/ RagStreamRaised
    \/ Finally
    \/ Except

Spec == Init /\ [][Next]_vars

\* The consumer keeps pulling and every collaborator call returns or raises.
FairSpec == Spec /\ WF_vars(Next)

\* =================================== RAGService.get_response_with_context
\* A gate returns (a stream of one canned fragment, []).
ReturnCanned(msg) ==
    /\ ret' = [kind |-> "canned", msg |-> msg, context |-> <<>>]
    /\ pc' = "returned"

\* lines 140-143
CtxCheckEmpty ==
    /\ pc = "gate_empty"
    /\ IF EmptyContext(context)
       THEN ReturnCanned(RefusalMsg)
       ELSE pc' = "gate_broad" /\ UNCHANGED ret
    /\ UNCHANGED <<query, searchQuery, context, messages, clients, client, ragBuffer,
                   out, outcome, err, log>>
    /\ UNCHANGED <<gwVars, sysVars>>

\* lines 146-149
CtxCheckBroad ==
    /\ pc = "gate_broad"
    /\ IF IsBroadQuery(query)
       THEN ReturnCanned(BroadMsg)
       ELSE pc' = "gate_many" /\ UNCHANGED ret
    /\ UNCHANGED <<query, searchQuery, context, messages, clients, client, ragBuffer,
                   out, outcome, err, log>>
    /\ UNCHANGED <<gwVars, sysVars>>

\* lines 152-155
CtxCheckMany ==
    /\ pc = "gate_many"
    /\ IF ManyEndpoints(context)
       THEN ReturnCanned(ManyMsg)
       ELSE pc' = "build" /\ UNCHANGED ret
    /\ UNCHANGED <<query, searchQuery, context, messages, clients, client, ragBuffer,
                   out, outcome, err, log>>
    /\ UNCHANGED <<gwVars, sysVars>>

\* lines 163-165: the generator object of stream_chat_completion is created
\* and returned, unstarted, with the cleaned context; no line between the
\* __aenter__ of line 162 and this return calls __aexit__
CtxReturnStream ==
    /\ pc = "call_stream"
    /\ ret' = [kind |-> "gateway", msg |-> <<>>, context |-> clean_context(context)]
    /\ log' = Append(log, "stream_call")
    /\ pc' = "returned"
    /\ UNCHANGED <<query, searchQuery, context, messages, clients, client, ragBuffer,
                   out, outcome, err>>
    /\ UNCHANGED <<gwVars, sysVars>>

\* lines 170-174: the handler returns (error_stream(), []); the name `e` of
\* `except Exception as e` is unbound when the handler is left, so the body
\* of error_stream, run at the consumer's first pull, has no `e` to format
CtxExcept ==
    /\ pc = "except"
    /\ ret' = [kind |-> "error_stream", msg |-> <<>>, context |-> <<>>]
    /\ pc' = "returned"
    /\ UNCHANGED <<query, searchQuery, context, messages, clients, client, ragBuffer,
                   out, outcome, err, log>>
    /\ UNCHANGED <<gwVars, sysVars>>

\* ------------------------------------ the consumer of the returned stream
\* the consumer starts to iterate the stream it was handed
CtxPull ==
    /\ pc = "returned"
    /\ CASE ret.kind = "canned" ->
              /\ out' = Append(out, ret.msg)
              /\ outcome' = "Refused"
              /\ pc' = "done"
              /\ UNCHANGED <<gwpc, err>>
         [] ret.kind = "error_stream" ->
              /\ err' = "name"
              /\ outcome' = "Raised"
              /\ pc' = "propagated"
              /\ UNCHANGED <<gwpc, out>>
         [] OTHER ->
              /\ gwpc' = "opening"
              /\ pc' = "stream"
              /\ UNCHANGED <<out, outcome, err>>
    /\ UNCHANGED <<query, searchQuery, context, messages, clients, client, ragBuffer,
                   log, ret>>
    /\ UNCHANGED <<gwBuffer, nLines, raw, tok, gwOut, ending, sysVars>>

\* the consumer receives the fragment stream_chat_completion yielded
CtxTake ==
    /\ pc = "stream"
    /\ tok # <<>>
    /\ out' = out \o tok
    /\ tok' = <<>>
    /\ UNCHANGED <<query, pc, searchQuery, context, messages, clients, client,
                   ragBuffer, outcome, err, log, ret>>
    /\ UNCHANGED <<gwpc, gwBuffer, nLines, raw, gwOut, ending, sysVars>>

\* the stream is exhausted
CtxStreamEnd ==
    /\ pc = "stream"
    /\ gwpc = "ended"
    /\ tok = <<>>
    /\ outcome' = "Answered"
    /\ pc' = "done"
    /\ UNCHANGED <<query, searchQuery, context, messages, clients, client, ragBuffer,
                   out, err, log, ret>>
    /\ UNCHANGED <<gwVars, sysVars>>

\* stream_chat_completion raised (lines 175-177): nothing stands between it
\* and the consumer
CtxStreamRaised ==
    /\ pc = "stream"
    /\ gwpc = "raised"
    /\ outcome' = "Raised"
    /\ pc' = "propagated"
    /\ UNCHANGED <<query, searchQuery, context, messages, clients, client, ragBuffer,
                   out, err, log, ret>>
    /\ UNCHANGED <<gwVars, sysVars>>

\* the consumer stops iterating after a fragment; the generator is closed at
\* its yield, which leaves the `async with self.client.stream(...)` of line 129
CtxAbandon ==
    /\ pc = "stream"
    /\ gwpc = "reading"
    /\ tok = <<>>
    /\ out # <<>>
    /\ gwpc' = "closed"
    /\ outcome' = "Abandoned"
    /\ pc' = "abandoned"
    /\ UNCHANGED <<query, searchQuery, context, messages, clients, client, ragBuffer,
                   out, err, log, ret>>
    /\ UNCHANGED <<gwBuffer, nLines, raw, tok, gwOut, ending, sysVars>>

CtxNext ==
    \/ SearchCall
    \/ \E results \in ResultLists : SearchReturn(results)
    \/ SearchRaise
    \/ CtxCheckEmpty
    \/ CtxCheckBroad
    \/ CtxCheckMany
    \/ Build
    \/ Enter
    \/ EnterRaise
    \/ CtxReturnStream
    \/ CtxExcept
    \/ CtxPull
    \/ \E status \in {"ok", "connect", "status"} : GwOpen(status)
    \/ \E line \in Lines : GwLine(line)
    \/ GwEof
    \/ GwRaise
    \/ CtxTake
    \/ CtxStreamEnd
    \/ CtxStreamRaised
    \/ CtxAbandon

\* one call of get_response_with_context and the consumption of its stream
CtxSpec == Init /\ [][CtxNext]_vars

\* ========================= two queries on the one shared OpenRouterService
\* main.py:16-17 creates one OpenRouterService; main.py:48 hands it to the
\* RAGService of every websocket.  `clients` and `client` are that service's
\* state; each query runs lines 115-130 of generate_response.  Its answer is
\* MaxLines lines followed by '[DONE]'.
\* Lines 117-120 with openrouter_service.py:39-48 and 129: __aenter__ stores a
\* new client in self.client, and the first step of the completion stream
\* reads self.client for its request.  No await between the two suspends, so
\* no other task runs in between.
ConcEnter(i) ==
    /\ conc[i].pc = "idle"
    /\ clients' = Append(clients, "open")
    /\ client' = Len(clients) + 1
    /\ conc' = [conc EXCEPT ![i] = [@ EXCEPT !.pc = "stream",
                                              !.using = Len(clients) + 1]]
    /\ UNCHANGED <<ragVars, gwVars, err, log, ret, storeVars, appVars>>

\* openrouter_service.py:141: the next line of the response arrives
ConcLine(i) ==
    /\ conc[i].pc = "stream"
    /\ clients[conc[i].using] = "open"
    /\ conc[i].got < MaxLines
    /\ conc' = [conc EXCEPT ![i] = [@ EXCEPT !.got = @ + 1]]
    /\ UNCHANGED <<clients, client, ragVars, gwVars, err, log, ret, storeVars, appVars>>

\* openrouter_service.py:146-149: '[DONE]' arrives, the stream ends
ConcDone(i) ==
    /\ conc[i].pc = "stream"
    /\ clients[conc[i].using] = "open"
    /\ conc[i].got = MaxLines
    /\ conc' = [conc EXCEPT ![i] = [@ EXCEPT !.pc = "finally"]]
    /\ UNCHANGED <<clients, client, ragVars, gwVars, err, log, ret, storeVars, appVars>>

\* openrouter_service.py:141 and 175-177: the client the response is read
\* from has been closed, reading raises
ConcReadClosed(i) ==
    /\ conc[i].pc = "stream"
    /\ clients[conc[i].using] = "closed"
    /\ conc' = [conc EXCEPT ![i] = [@ EXCEPT !.pc = "finally", !.failed = TRUE]]
    /\ UNCHANGED <<clients, client, ragVars, gwVars, err, log, ret, storeVars, appVars>>

\* rag_service.py:129-130 with openrouter_service.py:50-53: __aexit__ closes
\* whatever self.client holds now; an exception then ends in the error
\* fragment of lines 131-133
ConcFinally(i) ==
    /\ conc[i].pc = "finally"
    /\ clients' = IF client # 0 THEN [clients EXCEPT ![client] = "closed"] ELSE clients
    /\ conc' = [conc EXCEPT ![i] = [@ EXCEPT !.pc = "done"]]
    /\ UNCHANGED <<client, ragVars, gwVars, err, log, ret, storeVars, appVars>>

ConcNext ==
    \E i \in QueryIds :
        \/ ConcEnter(i)
        \/ ConcLine(i)
        \/ ConcDone(i)
        \/ ConcReadClosed(i)
        \/ ConcFinally(i)

\* the single query of generate_response is not running
QueryIdle ==
    /\ query = <<>>
    /\ pc = "idle"
    /\ searchQuery = <<>>
    /\ context = <<>>
    /\ messages = <<>>
    /\ gwpc = "unstarted"
    /\ gwBuffer = <<>>
    /\ nLines = 0
    /\ raw = <<>>
    /\ tok = <<>>
    /\ gwOut = <<>>
    /\ ending = "none"
    /\ ragBuffer = <<>>
    /\ out = <<>>
    /\ err = "none"
    /\ outcome = "none"
    /\ log = <<>>
    /\ ret = NotReturned

ConcInit ==
    /\ QueryIdle
    /\ clients = <<>>
    /\ client = 0
    /\ conc = NoQueries
    /\ StoreIdle
    /\ AppReady

\* two websockets, one query each, interleaved at their awaits
ConcSpec == ConcInit /\ [][ConcNext]_vars

\* ------------------------------------------- store_chunks, in batches
\* lines 125-129: store_chunks(chunks, spec_id) is called with the chunks of
\* the document of that id
StoreChunks(spec_id) ==
    /\ job.pc = "idle"
    /\ LET chunks == chunk_specification(DocOfId(spec_id), spec_id).chunks
       IN  job' = [NoJob EXCEPT !.pc = "storing", !.op = "store_chunks",
                                !.spec_id = spec_id, !.chunks = chunks,
                                !.before = points,
                                !.again = FullyStored(points, chunks, spec_id)]
    /\ last' = Finished("none", "ok", <<>>)
    /\ UNCHANGED <<files, nFiles, points, hashSeed>>
    /\ UNCHANGED <<queryVars, conc, appVars>>

\* lines 130-159: one batch is embedded and upserted
StoreBatch ==
    /\ job.pc = "storing"
    /\ job.next <= Len(job.chunks)
    /\ LET to == IF job.next + BatchSize - 1 < Len(job.chunks)
                 THEN job.next + BatchSize - 1 ELSE Len(job.chunks)
           batch == SubSeq(job.chunks, job.next, to)
       IN  points' = Upsert(points, BatchPoints(hashSeed, batch, job.spec_id))
    /\ job' = [job EXCEPT !.next = @ + BatchSize]
    /\ UNCHANGED <<files, nFiles, hashSeed, last>>
    /\ UNCHANGED <<queryVars, conc, appVars>>

\* a store_chunks that takes back what it stored when a batch fails
StoreBatchRaise_Rollback ==
    /\ job.pc = "storing"
    /\ job.next <= Len(job.chunks)
    /\ points' = job.before
    /\ last' = [Finished(job.op, "error", job.spec_id) EXCEPT
                    !.stage = "store", !.before = job.before, !.n = Len(job.chunks),
                    !.upload = job.upload, !.parse = job.parse]
    /\ job' = NoJob
    /\ UNCHANGED <<files, nFiles, hashSeed>>
    /\ UNCHANGED <<queryVars, conc, appVars>>

\* lines 139, 156 and 167-169: the embedding or the upsert of the batch
\* raises; store_chunks logs and raises again
StoreBatchRaise ==
    /\ job.pc = "storing"
    /\ job.next <= Len(job.chunks)
    /\ last' = [Finished(job.op, "error", job.spec_id) EXCEPT
                    !.stage = "store", !.before = job.before, !.n = Len(job.chunks),
                    !.upload = job.upload, !.parse = job.parse]
    /\ job' = NoJob
    /\ UNCHANGED <<files, nFiles, points, hashSeed>>
    /\ UNCHANGED <<queryVars, conc, appVars>>

\* line 165: every batch is stored, the call returns
StoreReturn ==
    /\ job.pc = "storing"
    /\ job.next > Len(job.chunks)
    /\ last' = [Finished(job.op, "ok", job.spec_id) EXCEPT
                    !.before = job.before, !.n = Len(job.chunks),
                    !.again = job.again, !.upload = job.upload,
                    !.parse = job.parse]
    /\ job' = NoJob
    /\ UNCHANGED <<files, nFiles, points, hashSeed>>
    /\ UNCHANGED <<queryVars, conc, appVars>>

\* a delete whose filter matches every point
DeleteSpecChunks_All(spec_id) ==
    /\ job.pc = "idle"
    /\ points' = {}
    /\ last' = [Finished("delete_spec_chunks", "ok", spec_id) EXCEPT !.before = points]
    /\ UNCHANGED <<files, nFiles, hashSeed, job>>
    /\ UNCHANGED <<queryVars, conc, appVars>>

\* lines 234-246
DeleteSpecChunks(spec_id) ==
    /\ job.pc = "idle"
    /\ points' = delete_spec_chunks(points, spec_id)
    /\ last' = [Finished("delete_spec_chunks", "ok", spec_id) EXCEPT !.before = points]
    /\ UNCHANGED <<files, nFiles, hashSeed, job>>
    /\ UNCHANGED <<queryVars, conc, appVars>>

\* lines 247-249: client.delete raises
DeleteSpecChunksRaise(spec_id) ==
    /\ job.pc = "idle"
    /\ last' = [Finished("delete_spec_chunks", "error", spec_id) EXCEPT
                    !.before = points]
    /\ UNCHANGED <<files, nFiles, points, hashSeed, job>>
    /\ UNCHANGED <<queryVars, conc, appVars>>

\* lines 197-229: a search, with the filter on spec_id or (<<>>) without
SearchChunks(q, spec_id, limit) ==
    /\ job.pc = "idle"
    /\ last' = [Finished("search_chunks", "ok", spec_id) EXCEPT
                    !.query = q, !.limit = limit,
                    !.result = search_chunks(points, q, spec_id, limit)]
    /\ UNCHANGED <<files, nFiles, points, hashSeed, job>>
    /\ UNCHANGED <<queryVars, conc, appVars>>

\* lines 251-263
GetChunkCount(spec_id) ==
    /\ job.pc = "idle"
    /\ last' = [Finished("get_chunk_count", "ok", spec_id) EXCEPT
                    !.n = get_chunk_count(points, spec_id)]
    /\ UNCHANGED <<files, nFiles, points, hashSeed, job>>
    /\ UNCHANGED <<queryVars, conc, appVars>>

\* the process ends and another starts, with another salt of hash(); the
\* collection in Qdrant stays
Restart ==
    /\ job.pc = "idle"
    /\ \E seed \in HashSeeds : seed # hashSeed /\ hashSeed' = seed
    /\ last' = Finished("restart", "ok", <<>>)
    /\ UNCHANGED <<files, nFiles, points, job>>
    /\ UNCHANGED <<queryVars, conc, appVars>>

IndexNext ==
    \/ \E spec_id \in SpecIds : StoreChunks(spec_id)
    \/ StoreBatch
    \/ StoreBatchRaise
    \/ StoreReturn
    \/ \E spec_id \in SpecIds : DeleteSpecChunks(spec_id)
    \/ \E spec_id \in SpecIds : DeleteSpecChunksRaise(spec_id)
    \/ \E q \in SearchQueries, spec_id \in SpecIds \cup {<<>>}, limit \in SearchLimits :
           SearchChunks(q, spec_id, limit)
    \/ \E spec_id \in SpecIds : GetChunkCount(spec_id)
    \/ Restart

IndexInit ==
    /\ QueryIdle
    /\ clients = <<>>
    /\ client = 0
    /\ conc = NoQueries
    /\ StoreIdle
    /\ AppReady

\* the operations of VectorStorageService on the collection, one at a time
IndexSpec == IndexInit /\ [][IndexNext]_vars

\* ------------------------------------------ FileService: ingest and delete
\* the document an upload's file decodes to in _process_file
UploadDoc(u) == DecodeBySuffix(Uploads[u]).value

\* what the chunker yields for the job's file, and whether it raises then
JobChunking == chunk_specification(UploadDoc(job.upload), job.spec_id)

\* file_service.py:119-155: process_file saves the upload under a new id,
\* parses it for its metadata and decodes it again by its suffix; a failure
\* of either leaves the saved file and raises
ProcessFile(u) ==
    /\ job.pc = "idle"
    /\ nFiles < MaxUploads
    /\ LET spec_id == SpecId(nFiles + 1)
           parse == parse_openapi_spec(Uploads[u])
           started == [NoJob EXCEPT !.pc = "chunking", !.op = "process_file",
                                    !.spec_id = spec_id, !.upload = u,
                                    !.parse = parse, !.before = points]
           failed(stage) == [Finished("process_file", "error", spec_id) EXCEPT
                                 !.stage = stage, !.before = points,
                                 !.filesBefore = files, !.upload = u,
                                 !.parse = parse]
       IN  /\ files' = files \cup {spec_id}
           /\ nFiles' = nFiles + 1
           /\ IF ~parse.ok
              THEN job' = NoJob /\ last' = failed("parse")
              ELSE IF ~DecodeBySuffix(Uploads[u]).ok
              THEN job' = NoJob /\ last' = failed("decode")
              ELSE job' = started /\ last' = Finished("none", "ok", <<>>)
    /\ UNCHANGED <<points, hashSeed>>
    /\ UNCHANGED <<queryVars, conc, appVars>>

\* lines 160-164: the generator yields its next chunk, which is appended
ChunkStep ==
    /\ job.pc = "chunking"
    /\ Len(job.chunks) < Len(JobChunking.chunks)
    /\ job' = [job EXCEPT !.chunks = Append(@, JobChunking.chunks[Len(@) + 1])]
    /\ UNCHANGED <<files, nFiles, points, hashSeed, last>>
    /\ UNCHANGED <<queryVars, conc, appVars>>

\* lines 160 and 174-176: the generator raises; _process_file raises again
ChunkRaise ==
    /\ job.pc = "chunking"
    /\ Len(job.chunks) = Len(JobChunking.chunks)
    /\ JobChunking.failed
    /\ last' = [Finished("process_file", "error", job.spec_id) EXCEPT
                    !.stage = "chunking", !.before = job.before,
                    !.n = Len(job.chunks), !.upload = job.upload,
                    !.parse = job.parse]
    /\ job' = NoJob
    /\ UNCHANGED <<files, nFiles, points, hashSeed>>
    /\ UNCHANGED <<queryVars, conc, appVars>>

\* a _process_file that sends each chunk to the index as soon as it is made
ChunkDone_StoreEach ==
    /\ job.pc = "chunking"
    /\ job.chunks # <<>>
    /\ points' = Upsert(points, BatchPoints(hashSeed, job.chunks, job.spec_id))
    /\ IF Len(job.chunks) = Len(JobChunking.chunks) /\ ~JobChunking.failed
       THEN job' = [job EXCEPT !.pc = "storing"]
       ELSE job' = job
    /\ UNCHANGED <<files, nFiles, hashSeed, last>>
    /\ UNCHANGED <<queryVars, conc, appVars>>

\* lines 160-170: the generator is exhausted; store_chunks is called with the
\* whole list
ChunkDone ==
    /\ job.pc = "chunking"
    /\ Len(job.chunks) = Len(JobChunking.chunks)
    /\ ~JobChunking.failed
    /\ job' = [job EXCEPT !.pc = "storing"]
    /\ UNCHANGED <<files, nFiles, points, hashSeed, last>>
    /\ UNCHANGED <<queryVars, conc, appVars>>

\* a delete_file that clears the vectors before it looks for the file
DeleteFile_VectorsFirst(spec_id) ==
    /\ job.pc = "idle"
    /\ points' = delete_spec_chunks(points, spec_id)
    /\ files' = files \ {spec_id}
    /\ last' = [Finished("delete_file",
                         IF spec_id \in files THEN "ok" ELSE "not_found",
                         spec_id) EXCEPT
                    !.before = points, !.filesBefore = files]
    /\ UNCHANGED <<nFiles, hashSeed, job>>
    /\ UNCHANGED <<queryVars, conc, appVars>>

\* lines 178-195: delete_file unlinks the file whose stem is the id, or
\* raises FileNotFoundError when there is none; only then it deletes the
\* document's points
DeleteFile(spec_id) ==
    /\ job.pc = "idle"
    /\ IF spec_id \in files
       THEN /\ files' = files \ {spec_id}
            /\ points' = delete_spec_chunks(points, spec_id)
            /\ last' = [Finished("delete_file", "ok", spec_id) EXCEPT
                            !.before = points, !.filesBefore = files]
       ELSE /\ last' = [Finished("delete_file", "not_found", spec_id) EXCEPT
                            !.before = points, !.filesBefore = files]
            /\ UNCHANGED <<files, points>>
    /\ UNCHANGED <<nFiles, hashSeed, job>>
    /\ UNCHANGED <<queryVars, conc, appVars>>

\* lines 193 and 197-199: the file is unlinked, then delete_spec_chunks
\* raises and delete_file raises again
DeleteFileVectorsRaise(spec_id) ==
    /\ job.pc = "idle"
    /\ spec_id \in files
    /\ files' = files \ {spec_id}
    /\ last' = [Finished("delete_file", "error", spec_id) EXCEPT
                    !.stage = "store", !.before = points, !.filesBefore = files]
    /\ UNCHANGED <<nFiles, points, hashSeed, job>>
    /\ UNCHANGED <<queryVars, conc, appVars>>

IngestNext ==
    \/ \E u \in 1..Len(Uploads) : ProcessFile(u)
    \/ ChunkStep
    \/ ChunkRaise
    \/ ChunkDone
    \/ StoreBatch
    \/ StoreBatchRaise
    \/ StoreReturn
    \/ \E spec_id \in SpecIds : DeleteFile(spec_id)
    \/ \E spec_id \in SpecIds : DeleteFileVectorsRaise(spec_id)

IngestInit ==
    /\ QueryIdle
    /\ clients = <<>>
    /\ client = 0
    /\ conc = NoQueries
    /\ StoreIdle
    /\ AppReady

\* uploads and deletions through FileService, one at a time
IngestSpec == IngestInit /\ [][IngestNext]_vars

\* ===================== OpenRouterService() and the `chat ask` command
\* an __init__ that stores whatever key it finds and leaves the check to the
\* first request
Construct_Lazy ==
    /\ svc.made = "no"
    /\ svc' = [made |-> "yes", api_key |-> apiKey]
    /\ client' = 0
    /\ UNCHANGED <<ragVars, gwVars, clients, err, log, ret>>
    /\ UNCHANGED <<conc, storeVars, apiKey, ws>>

\* openrouter_service.py:27-35: __init__ reads the key from the settings and
\* raises ValueError when it is None or empty, before any other attribute is
\* set; otherwise the object exists, with client = None
Construct ==
    /\ svc.made = "no"
    /\ IF ~Truthy(apiKey)
       THEN svc' = [svc EXCEPT !.made = "raised"] /\ UNCHANGED client
       ELSE svc' = [made |-> "yes", api_key |-> apiKey] /\ client' = 0
    /\ UNCHANGED <<ragVars, gwVars, clients, err, log, ret>>
    /\ UNCHANGED <<conc, storeVars, apiKey, ws>>

\* cli/main.py:240-245: with the services made, `ask` calls
\* get_response_with_context(question)
AskCall(question) ==
    /\ svc.made = "yes"
    /\ pc = "idle"
    /\ query' = question
    /\ pc' = "start"
    /\ UNCHANGED <<searchQuery, context, messages, ragBuffer, out, outcome>>
    /\ UNCHANGED <<gwVars, clients, client, err, log, ret, sysVars>>

AskNext ==
    \/ Construct
    \/ \E question \in Queries : AskCall(question)
    \/ CtxNext

\* the command starts: nothing is constructed, the key is what the
\* environment holds
AskInit ==
    /\ QueryIdle
    /\ clients = <<>>
    /\ client = 0
    /\ conc = NoQueries
    /\ StoreIdle
    /\ apiKey \in ApiKeys
    /\ svc = NoService
    /\ ws = NoSocket

\* `chat ask --show-context`, from the construction of the service on
AskSpec == AskInit /\ [][AskNext]_vars

\* ================================================ RAGService.clean_context
\* the longest context list clean_context is applied to
MaxChunks == 3

\* the chunks a retrieval can hand to clean_context: two short ones with runs
\* of whitespace, texts of CleanWordLimit + 1 words (without any keyword,
\* with "get" inside a word, with "API"), one of exactly CleanWordLimit
\* words, and one of whitespace alone
CleanChunks ==
    { ChunkPlain,
      ChunkEndpoint,
      Words(CleanWordLimit + 1),
      Words(CleanWordLimit),
      Words(CleanWordLimit) \o <<" ","t","a","r","g","e","t">>,
      Words(CleanWordLimit) \o <<"\n","A","P","I">>,
      <<" ","\n"," ">> }

\* the context lists of up to MaxChunks chunks
RECURSIVE ContextsOfLen(_)
ContextsOfLen(n) ==
    IF n = 0 THEN {<<>>}
    ELSE {Append(ctx, c) : ctx \in ContextsOfLen(n - 1), c \in CleanChunks}

CleanContexts == UNION {ContextsOfLen(n) : n \in 0..MaxChunks}

\* lines 29-47: clean_context(context) is called and returns
CleanApply ==
    /\ pc = "idle"
    /\ ret.kind = "none"
    /\ ret' = [kind |-> "cleaned", msg |-> <<>>, context |-> clean_context(context)]
    /\ pc' = "cleaned"
    /\ UNCHANGED <<query, searchQuery, context, messages, ragBuffer, out, outcome>>
    /\ UNCHANGED <<gwVars, clients, client, err, log, sysVars>>

CleanInit ==
    /\ query = <<>>
    /\ pc = "idle"
    /\ searchQuery = <<>>
    /\ context \in CleanContexts
    /\ messages = <<>>
    /\ gwpc = "unstarted"
    /\ gwBuffer = <<>>
    /\ nLines = 0
    /\ raw = <<>>
    /\ tok = <<>>
    /\ gwOut = <<>>
    /\ ending = "none"
    /\ ragBuffer = <<>>
    /\ out = <<>>
    /\ err = "none"
    /\ outcome = "none"
    /\ log = <<>>
    /\ ret = NotReturned
    /\ clients = <<>>
    /\ client = 0
    /\ conc = NoQueries
    /\ StoreIdle
    /\ AppReady

\* clean_context applied to every context list of up to MaxChunks chunks
CleanSpec == CleanInit /\ [][CleanApply]_vars

\* ===================================== api/ws/chat.py: handle_chat_websocket
\* the number of questions one socket asks
MaxMessages == 2

\* what the client sends: a question, a message whose content is blank, and
\* text that is not JSON
WsMessages ==
    { [kind |-> "query", content |-> QueryPets],
      [kind |-> "query", content |-> QueryAvailable],
      [kind |-> "blank", content |-> <<" ">>],
      [kind |-> "invalid", content |-> <<>>] }

\* the locals of a call of generate_response(q) and of the completion stream
\* it will open, before its first step (at = "start") or after its last
FreshQuery(q, at) ==
    /\ query' = q
    /\ pc' = at
    /\ searchQuery' = <<>>
    /\ context' = <<>>
    /\ messages' = <<>>
    /\ ragBuffer' = <<>>
    /\ out' = <<>>
    /\ outcome' = "none"
    /\ gwpc' = "unstarted"
    /\ gwBuffer' = <<>>
    /\ nLines' = 0
    /\ raw' = <<>>
    /\ tok' = <<>>
    /\ gwOut' = <<>>
    /\ ending' = "none"
    /\ err' = "none"
    /\ log' = <<>>

\* lines 57 and 14-16: the socket is accepted and added to active_connections
WsConnect ==
    /\ ws.pc = "none"
    /\ ws' = [ws EXCEPT !.pc = "accepted", !.active = TRUE, !.connected = TRUE]
    /\ UNCHANGED <<queryVars, conc, storeVars, apiKey, svc>>

\* line 60 with openrouter_service.py:39-48: `async with openrouter_service`
\* stores a new client in the service
WsEnter ==
    /\ ws.pc = "accepted"
    /\ clients' = Append(clients, "open")
    /\ client' = Len(clients) + 1
    /\ ws' = [ws EXCEPT !.pc = "receiving"]
    /\ UNCHANGED <<ragVars, gwVars, err, log, ret>>
    /\ UNCHANGED <<conc, storeVars, apiKey, svc>>

\* lines 64-73: a message arrives.  Text that is not JSON goes to the handler
\* of line 80, a blank content back to the receive, a question to
\* generate_response of the RAGService built on the same OpenRouterService
\* (main.py:48)
WsReceive(message) ==
    /\ ws.pc = "receiving"
    /\ ws.connected
    /\ CASE message.kind = "invalid" ->
              /\ ws' = [ws EXCEPT !.pc = "send_error"]
              /\ UNCHANGED <<ragVars, gwVars, err, log>>
         [] message.kind = "blank" ->
              /\ Strip(message.content) = <<>>
              /\ UNCHANGED <<ws, ragVars, gwVars, err, log>>
         [] OTHER ->
              /\ ws.served < MaxMessages
              /\ ws' = [ws EXCEPT !.pc = "responding", !.served = @ + 1]
              /\ FreshQuery(message.content, "start")
    /\ UNCHANGED <<clients, client, ret, conc, storeVars, apiKey, svc>>

\* lines 73-78: generate_response is exhausted, every fragment was sent, and
\* the end message is sent; the generator and its locals are gone
WsSendEnd ==
    /\ ws.pc = "responding"
    /\ pc = "done"
    /\ FreshQuery(<<>>, "idle")
    /\ ws' = [ws EXCEPT !.pc = "receiving"]
    /\ UNCHANGED <<clients, client, ret, conc, storeVars, apiKey, svc>>

\* the client goes away while the handler waits for its next message
WsDisconnect ==
    /\ ws.pc = "receiving"
    /\ ws.connected
    /\ ws' = [ws EXCEPT !.connected = FALSE]
    /\ UNCHANGED <<queryVars, conc, storeVars, apiKey, svc>>

\* lines 64 and 83-85: receive_text on the closed socket raises
\* (WebSocketDisconnect, then RuntimeError on every later call); both are
\* caught by `except Exception`, which sends an error message
WsReceiveRaise ==
    /\ ws.pc = "receiving"
    /\ ~ws.connected
    /\ ws' = [ws EXCEPT !.pc = "send_error"]
    /\ UNCHANGED <<queryVars, conc, storeVars, apiKey, svc>>

\* lines 81 and 85: send_error.  On a connected socket it returns; on a
\* closed one it returns (the server drops the frame) or raises
\* WebSocketDisconnect or RuntimeError, by the version of the server
WsSendError(result) ==
    /\ ws.pc = "send_error"
    /\ ws.connected => result = "sent"
    /\ ws' = IF result = "sent"
             THEN [ws EXCEPT !.pc = "receiving"]
             ELSE [ws EXCEPT !.pc = "leaving", !.exc = result]
    /\ UNCHANGED <<queryVars, conc, storeVars, apiKey, svc>>

\* line 60 on the way out with openrouter_service.py:50-53, then lines 87-91:
\* __aexit__ closes the client the service holds now, and the socket leaves
\* active_connections only under `except WebSocketDisconnect`
WsLeave ==
    /\ ws.pc = "leaving"
    /\ clients' = IF client # 0 THEN [clients EXCEPT ![client] = "closed"] ELSE clients
    /\ ws' = [ws EXCEPT !.pc = "ended",
                        !.active = IF ws.exc = "disconnect" THEN FALSE ELSE @]
    /\ UNCHANGED <<ragVars, gwVars, client, err, log, ret>>
    /\ UNCHANGED <<conc, storeVars, apiKey, svc>>

WsNext ==
    \/ WsConnect
    \/ WsEnter
    \/ \E message \in WsMessages : WsReceive(message)
    \/ Next
    \/ WsSendEnd
    \/ WsDisconnect
    \/ WsReceiveRaise
    \/ \E result \in {"sent", "disconnect", "runtime"} : WsSendError(result)
    \/ WsLeave

\* the application has started and a client opens /ws
WsInit ==
    /\ QueryIdle
    /\ clients = <<>>
    /\ client = 0
    /\ conc = NoQueries
    /\ StoreIdle
    /\ AppReady

\* one websocket served by handle_chat_websocket
WsSpec == WsInit /\ [][WsNext]_vars

\* ============================================================== claims
InLog(e) == \E i \in 1..Len(log) : log[i] = e

CountLog(e) == Cardinality({i \in 1..Len(log) : log[i] = e})

\* whether the completion service was approached at all
GenerationCalled == InLog("aenter") \/ InLog("aenter_raise") \/ InLog("stream_call")

\* ----------------------------------------------------------------- C1
\* C1: when the remote service has sent its deltas and ended the stream with
\* '[DONE]', the fragments stream_chat_completion yielded concatenate to the
\* concatenation of the deltas, and so do the fragments generate_response
\* yielded once it has ended: nothing dropped, duplicated or reordered.
C1_ConcatenationPreserved ==
    /\ (gwpc = "ended" /\ ending = "sentinel") => Join(gwOut) = raw
    /\ (pc = "done" /\ ending = "sentinel") => Join(out) = raw

\* a completed stream whose fragments were merged by the second buffer and
\* whose last piece came out of the final flushes
C1_Witness ==
    /\ pc = "done"
    /\ ending = "sentinel"
    /\ Len(gwOut) = 3
    /\ Len(out) = 2
    /\ Len(raw) > RagFlushLen
    /\ Join(out) = raw

\* ----------------------------------------------------------------- C2
\* C2: whenever the remote stream signals completion, by a '[DONE]' line or
\* by the line sequence finishing without one, stream_chat_completion has
\* emitted all the text it held: what it yielded is all it received.
C2_FlushedOnCompletion ==
    gwpc = "ended" => Join(gwOut) = raw

\* ----------------------------------------------------------------- C3
\* the positions in a stream of the error-explanation fragments
ErrorFragments(o) == {i \in 1..Len(o) : StartsWith(o[i], ErrorPrefix)}

\* C3 as amended: generate_response never raises to its consumer. If opening
\* the connection or the completion stream raises, also after fragments were
\* yielded, the stream ends with exactly one error-explanation fragment, its
\* last; if the retrieval raises, get_context absorbs it and the stream is
\* the rephrase refusal alone, with no error fragment.
C3_ErrorsEndInOneFragment ==
    /\ pc # "propagated"
    /\ (pc = "done" /\ err # "none") =>
           /\ outcome = "Errored"
           /\ ErrorFragments(out) = {Len(out)}
           /\ out[Len(out)] = ErrorPrefix \o ErrText(err)
    /\ (pc = "done" /\ InLog("search_raise")) =>
           /\ out = <<RefusalMsg>>
           /\ ErrorFragments(out) = {}

\* the completion stream failed after two fragments had been yielded
C3_Witness ==
    /\ pc = "done"
    /\ err = "read"
    /\ Len(out) = 3
    /\ ErrorFragments(out) = {3}

\* C3 as stated: whatever raises, the retrieval included, the stream ends
\* with exactly one error-explanation fragment, its last.
C3_Original ==
    (pc = "done" /\ (err # "none" \/ InLog("search_raise"))) =>
        ErrorFragments(out) = {Len(out)}

\* ----------------------------------------------------------------- C4
\* C4: every query terminates: once the vector search has returned or failed
\* and the completion stream has ended or failed, generate_response reaches
\* Answered, Refused or Errored and ends its stream.
C4_Terminates ==
    <>(pc = "done" /\ outcome \in {"Answered", "Refused", "Errored"})

\* a query answered after the longest stream the remote service sends
C4_Witness ==
    /\ pc = "done"
    /\ outcome = "Answered"
    /\ ending = "eof"
    /\ nLines = MaxLines

\* ----------------------------------------------------------------- C5
\* C5: when retrieval yields no chunks, generate_response yields exactly one
\* fragment, the rephrase refusal, and neither opens the completion
\* connection nor calls stream_chat_completion.
C5_EmptyContextRefused ==
    (pc \notin {"start", "searching"} /\ context = <<>>) =>
        /\ ~GenerationCalled
        /\ clients = <<>>
        /\ out \in {<<>>, <<RefusalMsg>>}
        /\ pc = "done" => out = <<RefusalMsg>>

\* the search returned no result and the query was refused
C5_Witness ==
    /\ pc = "done"
    /\ log = <<"search_call", "search_return">>
    /\ context = <<>>
    /\ out = <<RefusalMsg>>

\* ----------------------------------------------------------------- C6
\* the questions that are broad phrasings once lowercased and stripped
BroadQuestions == {QueryList, QueryListMixed, QueryAvailable, QueryThere, QueryShow}

\* C6 as amended: for a query that, lowercased and stripped, is one of the
\* four broad phrasings, generate_response makes no generation call; its only
\* fragment is the broad-query clarification when retrieval returned at least
\* one chunk, and the rephrase refusal when retrieval returned none or failed.
C6_BroadQueryClarified ==
    query \in BroadQuestions =>
        /\ ~GenerationCalled
        /\ pc = "done" =>
               out = IF context = <<>> THEN <<RefusalMsg>> ELSE <<BroadMsg>>

\* 'list endpoints' in mixed case and padded, with chunks retrieved
C6_Witness ==
    /\ pc = "done"
    /\ query = QueryListMixed
    /\ context # <<>>
    /\ out = <<BroadMsg>>

\* C6 as stated: a broad phrasing yields the broad-query clarification as
\* its only fragment for every retrieval outcome.
C6_Original ==
    (query \in BroadQuestions /\ pc = "done") => out = <<BroadMsg>>

\* ----------------------------------------------------------------- C7
\* C7: a query that is not a broad phrasing and retrieves more than 5 chunks,
\* at least one containing 'endpoint' in any case, yields the many-endpoints
\* clarification as its only fragment and makes no generation call.
C7_ManyEndpointsClarified ==
    ( /\ pc \notin {"start", "searching"}
      /\ query \notin BroadQuestions
      /\ Len(context) > 5
      /\ \E i \in 1..Len(context) : context[i] = ChunkEndpoint ) =>
        /\ ~GenerationCalled
        /\ out \in {<<>>, <<ManyMsg>>}
        /\ pc = "done" => out = <<ManyMsg>>

\* six chunks, the last of which mentions an 'Endpoint'
C7_Witness ==
    /\ pc = "done"
    /\ query = QueryPets
    /\ Len(context) = 6
    /\ context[6] = ChunkEndpoint
    /\ out = <<ManyMsg>>

\* ----------------------------------------------------------------- C8
\* the many-endpoints condition on the chunks the search can return
ManyRetrieved ==
    Len(context) > 5 /\ \E i \in 1..Len(context) : context[i] = ChunkEndpoint

\* C8: the gates are evaluated in the order empty-context, broad-phrasing,
\* many-endpoints: the stream is the canned message of the first gate whose
\* condition holds and nothing else, and the completion gateway is invoked
\* only when no gate's condition holds.
C8_GatesInOrder ==
    /\ (pc = "done" /\ context = <<>>) => out = <<RefusalMsg>>
    /\ (pc = "done" /\ context # <<>> /\ query \in BroadQuestions) =>
           out = <<BroadMsg>>
    /\ (pc = "done" /\ context # <<>> /\ query \notin BroadQuestions
            /\ ManyRetrieved) => out = <<ManyMsg>>
    /\ GenerationCalled =>
           context # <<>> /\ query \notin BroadQuestions /\ ~ManyRetrieved
    /\ (pc = "done" /\ context # <<>> /\ query \notin BroadQuestions
            /\ ~ManyRetrieved) => GenerationCalled

\* a broad phrasing with more than 5 chunks retrieved: two gates hold and
\* the earlier one answers
C8_Witness ==
    /\ pc = "done"
    /\ query \in BroadQuestions
    /\ ManyRetrieved
    /\ out = <<BroadMsg>>

\* ----------------------------------------------------------------- C9
\* C9: if the vector search or the query embedding raises, get_context
\* returns an empty context instead of propagating: the query ends Refused
\* with the rephrase refusal, not Errored with an error fragment.
C9_SearchFailureRefused ==
    InLog("search_raise") =>
        /\ context = <<>>
        /\ err = "none"
        /\ pc \notin {"except", "propagated"}
        /\ pc = "done" => (outcome = "Refused" /\ out = <<RefusalMsg>>)

\* the search raised and the query was refused
C9_Witness ==
    /\ pc = "done"
    /\ log = <<"search_call", "search_raise">>
    /\ outcome = "Refused"

\* ---------------------------------------------------------------- C10
\* C10: within one query there is exactly one retrieval call and at most one
\* generation call; the retrieval has completed before the connection is
\* opened or the completion stream is started; nothing is retried.
C10_OneRetrievalThenOneGeneration ==
    /\ CountLog("search_call") = (IF pc = "start" THEN 0 ELSE 1)
    /\ CountLog("search_return") + CountLog("search_raise")
           = (IF pc \in {"start", "searching"} THEN 0 ELSE 1)
    /\ CountLog("aenter") + CountLog("aenter_raise") <= 1
    /\ CountLog("stream_call") <= 1
    /\ Len(clients) <= 1
    /\ \A i \in 1..Len(log) :
           log[i] \in {"aenter", "aenter_raise", "stream_call"} =>
               \E j \in 1..(i - 1) : log[j] \in {"search_return", "search_raise"}

\* a query whose completion stream failed and was not started again
C10_Witness ==
    /\ pc = "done"
    /\ err = "status"
    /\ log = <<"search_call", "search_return", "aenter", "stream_call", "aexit">>

\* ---------------------------------------------------------------- C11
\* C11: every HTTP client opened for a query, by generate_response or by
\* get_response_with_context, is closed once the query has ended, whether
\* the stream completed, an exception ended it, or the consumer abandoned
\* it.
C11_ClientsClosedAtEnd ==
    pc \in {"done", "propagated", "abandoned"} =>
        \A i \in 1..Len(clients) : clients[i] = "closed"

\* ---------------------------------------------------------------- C12
\* C12: with two queries in flight on the shared OpenRouterService, the
\* client a query is streaming from is open and is not closed or replaced
\* by the other query, and each query delivers its complete answer.
C12_QueriesIsolated ==
    \A i \in QueryIds :
        /\ conc[i].pc = "stream" => clients[conc[i].using] = "open"
        /\ conc[i].pc = "done" => conc[i].got = MaxLines /\ ~conc[i].failed

\* ---------------------------------------------------------------- C13
\* C13: storing the chunks of a document that is already stored leaves
\* get_chunk_count of the document and the result of every search unchanged.
C13_RestoreIsIdempotent ==
    (last.op = "store_chunks" /\ last.status = "ok" /\ last.again) =>
        /\ get_chunk_count(points, last.spec_id)
               = get_chunk_count(last.before, last.spec_id)
        /\ \A q \in SearchQueries, limit \in SearchLimits,
              filter \in {<<>>, last.spec_id} :
               search_chunks(points, q, filter, limit)
                   = search_chunks(last.before, q, filter, limit)

\* ---------------------------------------------------------------- C14
\* C14: a search filtered on document A returns only chunks of A, and as
\* many of them as the limit allows: min(limit, number of points of A).
C14_FilteredSearchIsolated ==
    (last.op = "search_chunks" /\ last.spec_id # <<>>) =>
        /\ \A i \in 1..Len(last.result) :
               last.result[i].metadata.spec_id = last.spec_id
        /\ Len(last.result)
               = IF last.limit < get_chunk_count(points, last.spec_id)
                 THEN last.limit ELSE get_chunk_count(points, last.spec_id)

\* a filtered search with limit 2 on a document of at least two points,
\* while another document has points too
C14_Witness ==
    /\ last.op = "search_chunks"
    /\ last.spec_id # <<>>
    /\ last.limit = 2
    /\ Len(last.result) = 2
    /\ \E p \in points : p.payload.spec_id # last.spec_id

\* ---------------------------------------------------------------- C15
\* the state right after delete_spec_chunks(id) returned
DeletedNow ==
    (last.op = "delete_spec_chunks" /\ last.status = "ok") =>
        /\ get_chunk_count(points, last.spec_id) = 0
        /\ \A q \in SearchQueries, limit \in SearchLimits,
              filter \in {<<>>, last.spec_id} :
               LET result == search_chunks(points, q, filter, limit)
               IN  \A i \in 1..Len(result) :
                       result[i].metadata.spec_id # last.spec_id
        /\ \A other \in SpecIds \ {last.spec_id} :
               Matching(points, other) = Matching(last.before, other)

\* a document without points gets points only by a store of its chunks
StoredAgain ==
    \A spec_id \in SpecIds :
        (get_chunk_count(points, spec_id) = 0 /\ get_chunk_count(points', spec_id) > 0)
            => (job.pc = "storing" /\ job.spec_id = spec_id)

\* C15: after delete_spec_chunks(id) returns, the count of id is 0 and no
\* search, filtered or not, returns a chunk of id, until id is stored again;
\* the points of every other document are as they were.
C15_DeleteRemovesThatDocumentOnly == []DeletedNow /\ [][StoredAgain]_vars

\* the call returned for a document that had points, beside another document
\* with points
C15_Witness ==
    /\ last.op = "delete_spec_chunks"
    /\ last.status = "ok"
    /\ get_chunk_count(last.before, last.spec_id) > 0
    /\ \E p \in points : p.payload.spec_id # last.spec_id

\* ---------------------------------------------------------------- C16
\* C16: delete_file(id) raises not-found exactly when no stored file has that
\* id, and then the vector index is as it was before the call; when it
\* returns without error, the file is gone and no point of id remains.
C16_DeleteFileOutcome ==
    last.op = "delete_file" =>
        /\ last.status = "not_found" <=> last.spec_id \notin last.filesBefore
        /\ last.status = "not_found" =>
               points = last.before /\ files = last.filesBefore
        /\ last.status = "ok" =>
               /\ last.spec_id \notin files
               /\ Matching(points, last.spec_id) = {}

\* not-found for an id whose file is gone while points of it are indexed
C16_Witness ==
    /\ last.op = "delete_file"
    /\ last.status = "not_found"
    /\ Matching(points, last.spec_id) # {}

\* ---------------------------------------------------------------- C17
\* C17: while an ingestion has not finished chunking, the index holds no
\* point of its document; a point of it exists only once the store phase
\* has begun with the chunker's complete sequence; and an ingestion that
\* failed in parsing, decoding or chunking left no point of its document.
C17_StoreOnlyAfterChunking ==
    /\ (job.op = "process_file" /\ job.pc = "chunking") =>
           Matching(points, job.spec_id) = {}
    /\ (job.op = "process_file" /\ Matching(points, job.spec_id) # {}) =>
           /\ job.pc = "storing"
           /\ job.chunks = JobChunking.chunks
           /\ ~JobChunking.failed
    /\ (last.op = "process_file" /\ last.status = "error"
            /\ last.stage \in {"parse", "decode", "chunking"}) =>
           Matching(points, last.spec_id) = {}

\* chunking failed after it had yielded chunks, beside a stored document
C17_Witness ==
    /\ last.op = "process_file"
    /\ last.status = "error"
    /\ last.stage = "chunking"
    /\ last.n > 0
    /\ points # {}

\* ---------------------------------------------------------------- C18
\* the keys of a path item that make an operation
VerbKeys ==
    {<<"g","e","t">>, <<"p","o","s","t">>, <<"p","u","t">>,
     <<"d","e","l","e","t","e">>, <<"p","a","t","c","h">>}

\* the items of a section of the document, none when it is absent
ItemsOf(spec, key) == IF HasKey(spec, key) THEN Get(spec, key).m ELSE <<>>

\* the structural elements of a document: <<0, 0, 0>> for info, <<1, i, j>>
\* for the j-th key of the i-th path when it is a verb, <<2, i, j>> for the
\* j-th name of the i-th component category
Elements(spec) ==
    (IF HasKey(spec, Key.info) THEN {<<0, 0, 0>>} ELSE {})
    \cup {e \in {1} \X (1..Len(ItemsOf(spec, Key.paths))) \X (1..4) :
            /\ e[3] <= Len(ItemsOf(spec, Key.paths)[e[2]][2].m)
            /\ ItemsOf(spec, Key.paths)[e[2]][2].m[e[3]][1] \in VerbKeys}
    \cup {e \in {2} \X (1..Len(ItemsOf(spec, Key.components))) \X (1..4) :
            e[3] <= Len(ItemsOf(spec, Key.components)[e[2]][2].m)}

\* info first, then paths, then components, each in the document's key order
Precedes(e, f) ==
    \/ e[1] < f[1]
    \/ e[1] = f[1] /\ e[2] < f[2]
    \/ e[1] = f[1] /\ e[2] = f[2] /\ e[3] < f[3]

\* the place of an element in the emitted sequence
Place(spec, e) == 1 + Cardinality({f \in Elements(spec) : Precedes(f, e)})

\* the chunk an element stands for: its id and the value it is the text of
ElementId(spec, spec_id, e) ==
    LET outer == ItemsOf(spec, IF e[1] = 1 THEN Key.paths ELSE Key.components)
    IN  IF e[1] = 0 THEN spec_id \o <<"_","i","n","f","o">>
        ELSE spec_id
             \o (IF e[1] = 1 THEN <<"_","p","a","t","h","_">>
                 ELSE <<"_","c","o","m","p","o","n","e","n","t","_">>)
             \o outer[e[2]][1] \o <<"_">> \o outer[e[2]][2].m[e[3]][1]

ElementValue(spec, e) ==
    LET outer == ItemsOf(spec, IF e[1] = 1 THEN Key.paths ELSE Key.components)
    IN  IF e[1] = 0 THEN Get(spec, Key.info) ELSE outer[e[2]][2].m[e[3]][2]

\* C18: the sequence chunk_specification has emitted so far is, place by
\* place, the document's elements in the order info, (path, verb key) in key
\* order, (component category, name) in key order, each with the chunk_id
\* and the text of that element, and when it ends without raising there is
\* exactly one chunk per element: a function of the document and its id.
C18_ChunksFollowDocument ==
    job.op = "process_file" =>
        LET spec == UploadDoc(job.upload)
        IN  /\ \A e \in Elements(spec) :
                   Place(spec, e) <= Len(job.chunks) =>
                       LET chunk == job.chunks[Place(spec, e)]
                       IN  /\ chunk.metadata.chunk_id
                                  = ElementId(spec, job.spec_id, e)
                           /\ chunk.text = JsonDumps(ElementValue(spec, e), 0)
            /\ Len(job.chunks) <= Cardinality(Elements(spec))
            /\ job.pc = "storing" =>
                   Len(job.chunks) = Cardinality(Elements(spec))

\* the chunker has ended for a document without info whose keys are not in
\* sorted order, with a key that is no verb and a 'patch' operation
C18_Witness ==
    /\ job.op = "process_file"
    /\ job.pc = "storing"
    /\ ~HasKey(UploadDoc(job.upload), Key.info)
    /\ Len(job.chunks) = 3
    /\ job.chunks[3].metadata.method = <<"p","a","t","c","h">>

\* ---------------------------------------------------------------- C19
\* C19: after a successful ingestion, get_chunk_count of the document's id
\* is the number of chunks the chunker emitted, one per element of the
\* document.
C19_CountIsChunksEmitted ==
    (last.op = "process_file" /\ last.status = "ok") =>
        /\ last.n = Cardinality(Elements(UploadDoc(last.upload)))
        /\ get_chunk_count(points, last.spec_id) = last.n

\* ---------------------------------------------------------------- C20
\* C20: parse_openapi_spec succeeds exactly when the content decodes, as JSON
\* or else as YAML, to a mapping with the key 'openapi'; otherwise it fails
\* with the format error (status 400); on success it reports the encoding
\* that decoded and the title, version and description of 'info', None when
\* absent.
C20_ParseSucceedsOnOpenapiMapping ==
    \A u \in 1..Len(Uploads) :
        (last.op = "process_file" /\ last.upload = u) =>
            LET up == Uploads[u]
                decodes == up.enc \in {"json", "yaml"}
                spec == Documents[up.doc]
                accepted == decodes /\ spec.t = "map" /\ HasKey(spec, Key.openapi)
            IN  /\ last.parse.ok <=> accepted
                /\ ~accepted => last.parse.status = 400
                /\ last.parse.ok =>
                       LET info == IF HasKey(spec, Key.info)
                                   THEN Get(spec, Key.info) ELSE Map(<<>>)
                       IN  /\ last.parse.content_type = up.enc
                           /\ last.parse.title = GetOrNone(info, Key.title)
                           /\ last.parse.version = GetOrNone(info, Key.version)
                           /\ last.parse.description
                                  = GetOrNone(info, Key.description)

\* ---------------------------------------------------------------- C21
\* C21: with no API key configured (None or empty) the construction of
\* OpenRouterService raises at once: no client was created and no call was
\* made before it or is made after it; a service object exists only with a
\* key, and clients and calls exist only with a service object.
C21_NoServiceWithoutKey ==
    /\ ~Truthy(apiKey) => svc.made # "yes"
    /\ svc.made = "yes" => Truthy(svc.api_key)
    /\ svc.made = "raised" =>
           /\ ~Truthy(apiKey)
           /\ clients = <<>> /\ client = 0 /\ log = <<>> /\ pc = "idle"
    /\ (clients # <<>> \/ log # <<>> \/ pc # "idle") => svc.made = "yes"

\* the construction raised on a key that is the empty string
C21_Witness ==
    /\ svc.made = "raised"
    /\ apiKey.set
    /\ apiKey.value = <<>>


\* ---------------------------------------------------------------- C22
\* the lengths of the prefixes of a stream that end at a fragment boundary
Boundaries(o) == {Len(Join(SubSeq(o, 1, i))) : i \in 0..Len(o)}

C23_PairReturned ==
    /\ ret.kind = "gateway" =>
           /\ ret.context = clean_context(context)
           /\ Len(out) <= Len(gwOut)
           /\ out = SubSeq(gwOut, 1, Len(out))
    /\ ret.kind = "canned" =>
           /\ ret.context = <<>>
           /\ ret.msg \in {RefusalMsg, BroadMsg, ManyMsg}
           /\ pc # "returned" => (pc = "done" /\ out = <<ret.msg>>)
    /\ ret.kind = "error_stream" =>
           /\ ret.context = <<>>
           /\ pc # "returned" =>
                  (pc = "done" /\ out = <<ErrorPrefix \o ErrText("enter")>>)


\* ---------------------------------------------------------------- C24
\* a step of stream_chat_completion that appended a content delta
C24_GatewayStep ==
    (nLines' = nLines + 1 /\ raw' # raw) =>
        LET delta == SubSeq(raw', Len(raw) + 1, Len(raw'))
            acc == Join(gwBuffer) \o delta
        IN  IF Len(acc) >= GatewayFlushLen \/ ContainsAnyChar(delta, Terminals)
            THEN /\ tok' = <<acc>>
                 /\ gwOut' = Append(gwOut, acc)
                 /\ gwBuffer' = <<>>
            ELSE /\ tok' = <<>>
                 /\ gwOut' = gwOut
                 /\ Join(gwBuffer') = acc

\* a step of generate_response that appended a fragment of the gateway
C24_RagStep ==
    (pc = "stream" /\ tok # <<>> /\ tok' = <<>>) =>
        LET acc == Join(ragBuffer) \o tok[1]
        IN  IF Len(acc) >= RagFlushLen \/ ContainsAnyChar(tok[1], Terminals)
            THEN /\ out' = Append(out, acc)
                 /\ ragBuffer' = <<>>
            ELSE /\ out' = out
                 /\ Join(ragBuffer') = acc

C25_LineSkipped ==
    \A line \in MalformedLines \cup {ContentLine(<<>>)} :
        GatewayLine(gwBuffer, line) =
            [buffer |-> gwBuffer, yield |-> <<>>, done |-> FALSE]

\* a step that read a line, took no delta from it and did not end the stream
\* changes nothing but the number of lines read
C25_SkipStep ==
    (nLines' = nLines + 1 /\ raw' = raw /\ ending' # "sentinel") =>
        /\ gwBuffer' = gwBuffer
        /\ gwOut' = gwOut
        /\ tok' = tok
        /\ gwpc' = gwpc
        /\ ending' = ending
        /\ err' = err
        /\ ragVars' = ragVars

\* C25: a malformed stream line (not prefixed 'data: ', empty, not valid
\* JSON, not an object, or without choices or content) is skipped without
\* aborting the stream and leaves the buffer and the fragments emitted so far
\* unchanged: the output is the same as if the line had not been sent.
C25_MalformedSkipped == [](C25_LineSkipped) /\ [][C25_SkipStep]_vars

\* two of three lines were skipped around a delta that is still buffered
C25_Witness ==
    /\ gwpc = "reading"
    /\ nLines = 3
    /\ raw = DeltaWord
    /\ gwBuffer = <<DeltaWord>>
    /\ gwOut = <<>>


\* ---------------------------------------------------------------- C26
\* C26: the query sent to the vector search is the original query with the
\* authentication keywords appended whenever it contains an
\* authentication-related term and with the operation-identifier keywords
\* appended whenever it contains 'endpoint', also when it contains both; a
\* query containing neither is sent unchanged.
C26_SearchQueryEnriched ==
    pc # "start" =>
        LET hasAuth == Contains(Lower(query), KwAuth)
            hasEndpoint == Contains(Lower(query), KwEndpoint)
        IN  /\ StartsWith(searchQuery, query)
            /\ hasAuth => Contains(searchQuery, AuthSuffix)
            /\ hasEndpoint => Contains(searchQuery, EndpointSuffix)
            /\ (~hasAuth /\ ~hasEndpoint) => searchQuery = query


\* ---------------------------------------------------------------- C27
\* s with each run of whitespace collapsed to one space and none at its ends
Collapsed(s, r) ==
    /\ Split(r) = Split(s)
    /\ \A i \in 1..Len(r) : r[i] \in Whitespace => r[i] = " "
    /\ Len(r) = Len(Join(Split(s))) + (IF Split(s) = <<>> THEN 0 ELSE Len(Split(s)) - 1)

\* the chunks of ctx whose positions are not in dropped, in order
Kept(ctx, dropped) ==
    LET upTo[i \in 0..Len(ctx)] ==
            IF i = 0 THEN <<>>
            ELSE IF i \in dropped THEN upTo[i - 1]
            ELSE Append(upTo[i - 1], ctx[i])
    IN  upTo[Len(ctx)]

\* cleaned is kept, chunk by chunk, with the whitespace collapsed
CollapsedEach(kept, cleaned) ==
    /\ Len(cleaned) = Len(kept)
    /\ \A i \in 1..Len(kept) : Collapsed(kept[i], cleaned[i])

HasAnyKeyword(c, kws) == \E kw \in kws : Contains(Lower(c), kw)

\* C27 as amended: clean_context drops every chunk that has more than 100
\* words and contains none of endpoint, api, auth, path and none of
\* operationid, get, post, put, delete, and drops no other chunk; every kept
\* chunk appears once, in its original relative order, with each run of
\* whitespace collapsed to a single space.
C27_DropsLongUnrelated ==
    pc = "cleaned" =>
        LET Dropped(c) ==
                /\ Len(Split(c)) > 100
                /\ ~HasAnyKeyword(c, {KwEndpoint, KwApi, KwAuth, KwPath})
                /\ ~HasAnyKeyword(c, {KwOperationId, KwGet, KwPost, KwPut, KwDelete})
        IN  CollapsedEach(Kept(context, {i \in 1..Len(context) : Dropped(context[i])}),
                          ret.context)

\* of three chunks the long one without a keyword was dropped, the long one
\* with "get" in it was kept and the short one came out collapsed
C27_Witness ==
    /\ pc = "cleaned"
    /\ context = <<Words(CleanWordLimit) \o <<" ","t","a","r","g","e","t">>,
                   Words(CleanWordLimit + 1), ChunkPlain>>
    /\ Len(ret.context) = 2
    /\ ret.context[1] = context[1]
    /\ ret.context[2] # context[3]

\* C27 as stated: a chunk is dropped exactly when it has more than 100 words
\* and contains none of endpoint, api, auth, path.
C27_Original ==
    pc = "cleaned" =>
        LET Dropped(c) ==
                /\ Len(Split(c)) > 100
                /\ ~HasAnyKeyword(c, {KwEndpoint, KwApi, KwAuth, KwPath})
        IN  CollapsedEach(Kept(context, {i \in 1..Len(context) : Dropped(context[i])}),
                          ret.context)


\* ---------------------------------------------------------------- C28
\* s ends with p
EndsWith(s, p) == Len(p) <= Len(s) /\ SubSeq(s, Len(s) - Len(p) + 1, Len(s)) = p

\* the messages are those of the question and the context of this query
C28_Built ==
    /\ Len(messages) = 2
    /\ messages[1].role = "system"
    /\ messages[2].role = "user"
    /\ LET cleaned == clean_context(context)
       IN  messages[2].content =
               ContextHeader
                   \o (IF cleaned = <<>> THEN NoContextText
                       ELSE JoinWith(<<"\n">>, cleaned))
                   \o QuestionHeader \o query
    /\ searchQuery # query => ~EndsWith(messages[2].content, searchQuery)

\* C28: build_messages returns exactly two messages, a system message
\* followed by a user message; the user message embeds the cleaned context
\* chunks joined by newlines (the placeholder text when cleaning left none)
\* and the original question as the user typed it, not the keyword-enriched
\* retrieval query.
C28_TwoMessagesOriginalQuestion ==
    [][(messages' # messages /\ messages' # <<>>) => C28_Built']_vars

\* the messages of a question about authentication, whose retrieval query
\* carries the appended keywords, built over two chunks
C28_Witness ==
    /\ messages # <<>>
    /\ Contains(Lower(query), KwAuth)
    /\ searchQuery = query \o AuthSuffix
    /\ Len(context) = 2
    /\ context[1] # context[2]
    /\ EndsWith(messages[2].content, QuestionHeader \o query)


\* ---------------------------------------------------------------- C29
\* C29: the stream returned by get_response_with_context never raises to its
\* consumer: a failure of the completion service while the stream is being
\* consumed is delivered as a single terminal error fragment, as it is for
\* generate_response.
C29_ReturnedStreamNeverRaises ==
    ret.kind = "gateway" =>
        /\ pc # "propagated"
        /\ (err # "none" /\ pc \notin {"returned", "stream"}) =>
               /\ pc = "done"
               /\ ErrorFragments(out) = {Len(out)}
               /\ out[Len(out)] = ErrorPrefix \o ErrText(err)


\* ---------------------------------------------------------------- C30
\* C30: an OpenRouterService holds at most one open HTTP client at any time,
\* and once the websocket handler and every generate_response it ran have
\* exited, every client ever created has been closed.
C30_OneOpenClient ==
    /\ Cardinality({i \in 1..Len(clients) : clients[i] = "open"}) <= 1
    /\ ws.pc = "ended" => \A i \in 1..Len(clients) : clients[i] = "closed"


\* ---------------------------------------------------------------- C31
\* the step on which store_chunks raises out of batch i, the batch that
\* starts at chunk job.next
C31_FailStep ==
    (job.pc = "storing" /\ last'.status = "error" /\ last'.stage = "store") =>
        /\ job.next <= Len(job.chunks)
        /\ job' = NoJob
        /\ points' = points
        /\ points' = Upsert(job.before,
                            BatchPoints(hashSeed, SubSeq(job.chunks, 1, job.next - 1),
                                        job.spec_id))

\* C31: if store_chunks fails while embedding or upserting batch i, it
\* raises without retrying and processes no later batch, and the points of
\* the batches before i stay in the index: the document is left partially
\* indexed, with no rollback.
C31_PartialStoreStays == [][C31_FailStep]_vars

\* store_chunks failed on its second batch: the document, absent before the
\* call, has the points of the first batch and no more
C31_Witness ==
    /\ last.op = "store_chunks"
    /\ last.status = "error"
    /\ last.stage = "store"
    /\ Matching(last.before, last.spec_id) = {}
    /\ get_chunk_count(points, last.spec_id) = BatchSize
    /\ last.n > BatchSize


\* ---------------------------------------------------------------- C32
\* C32: within one document, distinct structural elements get distinct
\* chunk_ids and therefore distinct point ids, so storing a document never
\* overwrites one of its chunks with another of its chunks.
C32_DistinctChunkIds ==
    job.pc = "storing" =>
        \A i, j \in 1..Len(job.chunks) :
            i # j =>
                /\ job.chunks[i].metadata.chunk_id # job.chunks[j].metadata.chunk_id
                /\ _generate_point_id(hashSeed, job.spec_id,
                                      job.chunks[i].metadata.chunk_id)
                       # _generate_point_id(hashSeed, job.spec_id,
                                            job.chunks[j].metadata.chunk_id)


AllDropped(ctx) ==
    /\ ctx # <<>>
    /\ \A i \in 1..Len(ctx) : TooLongAndUnrelated(ctx[i]) /\ ~IsEndpointInfo(ctx[i])

\* C34: the empty-context refusal is decided on the retrieved context
\* before cleaning: when the retrieval is non-empty but clean_context drops
\* every chunk, the query is not refused for want of context and the
\* completion gateway is still called, with the placeholder
\* 'No relevant context found.' as its context.
C34_RefusalBeforeCleaning ==
    (AllDropped(context) /\ pc \notin {"start", "searching", "gate_empty"}) =>
        /\ RefusalMsg \notin {out[i] : i \in 1..Len(out)}
        /\ (~IsBroadQuery(query) /\ pc # "gate_broad") =>
               /\ outcome # "Refused"
               /\ messages # <<>> =>
                      messages[2].content =
                          ContextHeader \o NoContextText \o QuestionHeader \o query
               /\ (pc \in {"stream", "finally", "done"} /\ err # "enter") =>
                      InLog("stream_call")

\* a question answered by the gateway although every retrieved chunk was
\* dropped by the cleaning
C34_Witness ==
    /\ pc = "done"
    /\ outcome = "Answered"
    /\ Len(context) = 2
    /\ clean_context(context) = <<>>
    /\ InLog("stream_call")
    /\ out # <<>>


\* the fragments handed to the consumer before the error fragment
DeliveredBeforeError ==
    IF pc = "done" THEN SubSeq(out, 1, Len(out) - 1) ELSE out

\* C35: when the completion stream fails inside the loop of
\* generate_response, the fragments delivered before the error fragment
\* concatenate to a prefix of the text the gateway handed over, what is
\* missing is exactly what the loop still had buffered, and the error
\* fragment is the last fragment: the buffered text is never delivered.
C35_BufferedTextLost ==
    (err \in {"connect", "status", "read"} /\ pc \in {"finally", "except", "done"}) =>
        /\ Join(DeliveredBeforeError) \o Join(ragBuffer) = Join(gwOut)
        /\ StartsWith(raw, Join(gwOut))
        /\ ErrorFragments(DeliveredBeforeError) = {}
        /\ pc = "done" => /\ outcome = "Errored"
                          /\ ErrorFragments(out) = {Len(out)}

C35_Witness ==
    /\ pc = "done"
    /\ err = "read"
    /\ Len(out) > 1
    /\ ragBuffer # <<>>
    /\ Join(DeliveredBeforeError) # Join(gwOut)


\* the decoder _process_file uses for an upload, named as the parser names
\* the encodings
SuffixDecoder(u) == IF Uploads[u].suffix = ".json" THEN "json" ELSE "yaml"

\* C36: every upload that parse_openapi_spec accepts is decoded by
\* _process_file, with the decoder of the encoding the parser detected and
\* to the value the parser validated, whatever the file's suffix.
C36_IngestionDecodesAsParsed ==
    /\ (last.op = "process_file" /\ last.parse.ok) => last.stage # "decode"
    /\ (job.op = "process_file" /\ job.pc # "idle") =>
           /\ job.parse.ok
           /\ SuffixDecoder(job.upload) = job.parse.content_type
           /\ UploadDoc(job.upload) = Documents[Uploads[job.upload].doc]


\* the points of `spec_id` are indexed and no stored file has that id
Orphaned(fs, pts, spec_id) == spec_id \notin fs /\ Matching(pts, spec_id) # {}

\* C37: a delete_file(id) called when the file of id is already unlinked
\* and points of id are still indexed (an earlier vector deletion failed)
\* reaches the vector deletion: it does not end with not-found and no point
\* of id is left after it.
C37_RetryDeletesVectors ==
    (last.op = "delete_file" /\ Orphaned(last.filesBefore, last.before, last.spec_id)) =>
        /\ last.status # "not_found"
        /\ Matching(points, last.spec_id) = {}


\* C38: once handle_chat_websocket has ended, the socket is no longer in
\* ConnectionManager.active_connections; in particular the handler that
\* left its receive loop after the client disconnected has removed it.
C38_EndedHandlerRemoved ==
    ws.pc = "ended" => ~ws.active

====
